---- MODULE Spec2Model ----
(***************************************************************************)
(* Hybrid job-recommendation engine (hh_ne04j): the three scorers, the     *)
(* ranker, profile and listing persistence and the feedback handler, over  *)
(* the property graph the Cypher statements of the services build.         *)
(*                                                                         *)
(* Numbers are exact rationals <<n, d>> in lowest terms with d > 0; the    *)
(* rounding of Python floats is not modelled.                              *)
(***************************************************************************)
EXTENDS Integers, Sequences, FiniteSets, TLC

VARIABLES
    userNodes,      \* (:User) nodes: <<id, slot>> -> properties
    vacancyNodes,   \* (:Vacancy) nodes: <<id, slot>> -> properties
    skillNodes,     \* (:Skill) nodes: id -> name
    rels,           \* feedback relationships: <<user node, vacancy node, type>> -> timestamp
    settings,       \* config.settings: the weights and the learning tunables
    clock,          \* datetime.now(), as a logical clock
    last,           \* the last call: its arguments, locals of interest and return value
    calls,          \* calls made so far, per kind (bounds the exploration)
    drawn,          \* inputs drawn at the start, for the operations checked alone
    connected,      \* whether the store answers (Neo4jClient has a live driver)
    pending,        \* calls and pages in progress: session -> its locals
    fetch           \* HHParser.search_vacancies: the items, the loop position, the result

vars == <<userNodes, vacancyNodes, skillNodes, rels, settings, clock, last, calls, drawn,
          connected, pending, fetch>>

----------------------------------------------------------------------------
(* Bounds of the exploration.                                              *)

MaxProfileSaves == 2
MaxVacancySaves == 2
MaxFeedback == 2
MaxLikes == 3
MaxPages == 2
MaxLimit == 2
MaxGets == 5
MaxHistory == 3
MaxLen == 3

(* Program constants.                                                      *)

QueryLimit == 100

----------------------------------------------------------------------------
(* Exact rational arithmetic.                                              *)

RECURSIVE Gcd(_, _)
Gcd(a, b) == IF b = 0 THEN a ELSE Gcd(b, a % b)

Rat(n, d) ==
    LET s == IF d < 0 THEN -1 ELSE 1
        g == Gcd(IF n < 0 THEN -n ELSE n, IF d < 0 THEN -d ELSE d)
    IN  <<(s * n) \div g, (s * d) \div g>>

Zero == <<0, 1>>
One == <<1, 1>>

RAdd(x, y) == Rat(x[1] * y[2] + y[1] * x[2], x[2] * y[2])
RSub(x, y) == Rat(x[1] * y[2] - y[1] * x[2], x[2] * y[2])
RMul(x, y) == Rat(x[1] * y[1], x[2] * y[2])
RDiv(x, y) == Rat(x[1] * y[2], x[2] * y[1])
RLt(x, y) == x[1] * y[2] < y[1] * x[2]
RLe(x, y) == x[1] * y[2] <= y[1] * x[2]
RMax(x, y) == IF RLt(x, y) THEN y ELSE x

(* max(d.values()) of a non-empty mapping of rationals.                    *)
MaxValue(d) ==
    CHOOSE m \in {d[k] : k \in DOMAIN d} : \A k \in DOMAIN d : RLe(d[k], m)

----------------------------------------------------------------------------
(* Sequences and sets.                                                     *)

Range(s) == {s[i] : i \in DOMAIN s}

Perms(S) ==
    {p \in [1..Cardinality(S) -> S] : \A i, j \in DOMAIN p : p[i] = p[j] => i = j}

RECURSIVE SetToSeq(_)
SetToSeq(S) ==
    IF S = {} THEN <<>>
    ELSE LET x == CHOOSE y \in S : TRUE IN <<x>> \o SetToSeq(S \ {x})

(* dict.get(key, default) *)
Get(d, k, default) == IF k \in DOMAIN d THEN d[k] ELSE default

(* A slice that keeps one element too many: the length bound of the ranker *)
(* must tell it from PySlice.                                              *)
PySliceOneMore(s, n) ==
    IF n >= 0 THEN SubSeq(s, 1, IF n + 1 < Len(s) THEN n + 1 ELSE Len(s))
    ELSE SubSeq(s, 1, IF Len(s) + n + 1 > 0 THEN Len(s) + n + 1 ELSE 0)

(* seq[:n] of Python: a negative n counts from the end.                    *)
PySlice(s, n) ==
    IF n >= 0 THEN SubSeq(s, 1, IF n < Len(s) THEN n ELSE Len(s))
    ELSE SubSeq(s, 1, IF Len(s) + n > 0 THEN Len(s) + n ELSE 0)

----------------------------------------------------------------------------
(* Strings are sequences of one-character strings, so that str.lower and   *)
(* str.replace are computed and not assumed.                               *)

Lower(c) ==
    IF c = "P" THEN "p" ELSE IF c = "S" THEN "s"
    ELSE IF c = "A" THEN "a" ELSE IF c = "M" THEN "m" ELSE c

StrLower(s) == [i \in DOMAIN s |-> Lower(s[i])]

(* s.replace(old, new) for a one-character old; new is a string.           *)
RECURSIVE StrReplace(_, _, _)
StrReplace(s, old, new) ==
    IF s = <<>> THEN <<>>
    ELSE (IF Head(s) = old THEN new ELSE <<Head(s)>>) \o StrReplace(Tail(s), old, new)

(* skill_name.lower().replace(' ', '_') *)
UserSkillId(skill_name) == StrReplace(StrLower(skill_name), " ", <<"_">>)

(* skill_name.lower().replace(' ', '_').replace('.', '') *)
VacancySkillId(skill_name) ==
    StrReplace(StrReplace(StrLower(skill_name), " ", <<"_">>), ".", <<>>)

(* vacancy.company_name.lower().replace(' ', '_').replace('.', '') *)
CompanyId(company_name) ==
    StrReplace(StrReplace(StrLower(company_name), " ", <<"_">>), ".", <<>>)

(* vacancy.location_name.lower().replace(' ', '_').replace('.', '') *)
LocationId(location_name) ==
    StrReplace(StrReplace(StrLower(location_name), " ", <<"_">>), ".", <<>>)

(* skill.lower().replace(' ', '_') *)
FeedbackSkillId(skill) == StrReplace(StrLower(skill), " ", <<"_">>)

(* skill_name.lower().replace(' ', '_') *)
PreferenceSkillId(skill_name) == StrReplace(StrLower(skill_name), " ", <<"_">>)

----------------------------------------------------------------------------
(* Identifiers and inputs.                                                 *)

UserIds == {"u1", "u2"}
VacancyIds == {"v1", "v2"}

LIKE == "LIKED"
DISLIKE == "DISLIKED"
VIEW == "VIEWED"
APPLY == "APPLIED"
FeedbackType == {LIKE, DISLIKE, VIEW, APPLY}

----------------------------------------------------------------------------
(* The embedding provider.  A text is the sequence of the strings it is    *)
(* joined from.  The vectors have integer norms, which keeps every cosine  *)
(* rational, and two components stand for the 1024 of the provider and of  *)
(* the generator.                                                          *)

(* The vector the provider answers for a text. *)
EmbeddingTable(text) ==
    IF text = <<"r1">> THEN <<3, 4>>
    ELSE IF text = <<"T", ". ", "d1">> THEN <<4, 3>>
    ELSE <<-3, -4>>

(* How one call of get_embedding meets the provider: it answers, or there  *)
(* is no client, or the request raises, and then _get_dummy_embedding      *)
(* draws the vector from numpy's generator, which is seeded with the hash  *)
(* of the text salted per process and shared with the other threads: any   *)
(* vector, whatever the text.                                              *)
ProviderOutcomes ==
    [answers : {TRUE}, dummy : {<<>>}] \cup [answers : {FALSE}, dummy : {<<-4, 3>>, <<0, 5>>}]

(* The provider answers. *)
Answered == [answers |-> TRUE, dummy |-> <<>>]

(* get_embedding: None (the empty sequence) for a text that is empty or    *)
(* blank, else the vector the provider answers or the generated one.       *)
(* Numbers of a vector are tagged with their Python type, here float.      *)
get_embedding(text, outcome) ==
    IF \A i \in DOMAIN text : text[i] \in {"", " "} THEN <<>>
    ELSE LET v == IF outcome.answers THEN EmbeddingTable(text) ELSE outcome.dummy
         IN  [i \in DOMAIN v |-> [float |-> v[i]]]

RECURSIVE Dot(_, _)
Dot(a, b) == IF a = <<>> THEN 0 ELSE Head(a) * Head(b) + Dot(Tail(a), Tail(b))

ISqrt(n) == CHOOSE r \in 0..n : r * r <= n /\ (r + 1) * (r + 1) > n

(* sklearn's cosine_similarity: a zero vector is normalised by 1, so the   *)
(* result is 0.                                                            *)
cosine_similarity(a, b) ==
    LET na == ISqrt(Dot(a, a))
        nb == ISqrt(Dot(b, b))
    IN  Rat(Dot(a, b), (IF na = 0 THEN 1 ELSE na) * (IF nb = 0 THEN 1 ELSE nb))

(* np.array(embedding) as cosine_similarity reads it: floats as they are,  *)
(* strings parsed to the float they print.                                 *)
ToArray(embedding) ==
    [i \in DOMAIN embedding |->
        IF "str" \in DOMAIN embedding[i] THEN embedding[i].str
        ELSE embedding[i].float]

(* EmbeddingService.get_similarity: 0.0 for an empty operand and for any   *)
(* exception (vectors of different lengths).                               *)
get_similarity(embedding1, embedding2) ==
    IF embedding1 = <<>> \/ embedding2 = <<>> THEN Zero
    ELSE IF Len(embedding1) # Len(embedding2) THEN Zero
    ELSE cosine_similarity(ToArray(embedding1), ToArray(embedding2))

----------------------------------------------------------------------------
(* The graph store.                                                        *)
(*                                                                         *)
(* A node is the record of the properties it has (a property set to null   *)
(* is absent).  Nodes are keyed <<id, slot>>.  The statement               *)
(*     MERGE (u:User {id: $user_id})-[:HAS_SKILL]->(s)                     *)
(* binds s only: when no User node with that id already has the            *)
(* relationship to s, MERGE creates the whole pattern, a further           *)
(* (:User {id}) node included.  The node of slot Main is the one the       *)
(* single-node MERGE (u:User {id: $id}) created; the node of slot          *)
(* SkillSlot(k) is the one created with the HAS_SKILL relationship to      *)
(* (:Skill {id: k}), and that relationship is its only HAS_SKILL.  The     *)
(* same holds of Vacancy nodes and REQUIRES, FROM_COMPANY (CompanySlot)    *)
(* and IN_LOCATION (LocationSlot).  Company and Location nodes are read by *)
(* no statement and are not kept.                                          *)

Main == <<"*", <<>>>>
SkillSlot(skill_id) == <<"skill", skill_id>>
CompanySlot(company_id) == <<"company", company_id>>
LocationSlot(location_id) == <<"location", location_id>>

NoProps == <<>>
EmptyDict == <<>>

NodesOf(nodes, id) == {n \in DOMAIN nodes : n[1] = id}

Has(node, key) == key \in DOMAIN node

json_dumps(d) == [json |-> d]
json_loads(text) == text.json

(* MERGE (n {id: $id}) SET n.<properties> = ...: every node with the id,   *)
(* or a new one when there is none.                                        *)
MergeNode(nodes, id, props) ==
    LET found == NodesOf(nodes, id)
        targets == IF found = {} THEN {<<id, Main>>} ELSE found
    IN  [n \in (DOMAIN nodes) \cup targets |->
            IF n \in targets THEN props ELSE nodes[n]]

(* MERGE (s:Skill {id: $skill_id}) SET s.name = $skill_name *)
MergeSkill(skills, skill_id, skill_name) == (skill_id :> skill_name) @@ skills

(* MERGE (n {id: $id})-[:REL]->(s), s bound: slot names REL and s *)
MergePattern(nodes, id, slot) ==
    IF <<id, slot>> \in DOMAIN nodes THEN nodes
    ELSE (<<id, slot>> :> NoProps) @@ nodes

(* User.from_dict: the preferences of a node record *)
UserFromDict(data) ==
    [preferences |->
        IF Has(data, "preferences") THEN json_loads(data.preferences) ELSE EmptyDict,
     skills |-> IF Has(data, "skills") THEN data.skills ELSE <<>>,
     has_embedding |-> Has(data, "embedding"),
     embedding |-> IF Has(data, "embedding") THEN data.embedding ELSE <<>>]

(* Vacancy.from_dict *)
VacancyFromDict(id) == [id |-> id]

----------------------------------------------------------------------------
(* UserService.create_or_update_user: the MERGE of the user, then one      *)
(* statement per skill.  execute_query opens a session per statement, so   *)
(* each statement is a transaction of its own.                             *)

(* user.embedding after lines 19-20, for a profile that comes without      *)
(* embedding, as the form builds it.                                       *)
EmbeddedResume(user, outcome) ==
    IF user.resume_text # "" THEN get_embedding(<<user.resume_text>>, outcome) ELSE <<>>

UserParams(user, e) ==
    LET embedding == IF e # <<>> THEN ("embedding" :> e) ELSE NoProps
    IN  embedding @@
        [resume_text |-> user.resume_text,
         preferences |-> json_dumps(EmptyDict),
         skills |-> user.skills]

(* The statements of one call, in the order they are sent. *)
UserStatements(user) ==
    <<[kind |-> "user", name |-> <<>>]>> \o
    [i \in 1..Len(user.skills) |-> [kind |-> "skill", name |-> user.skills[i]]]

(* The store after one statement; st holds the User and the Skill nodes. *)
UserStatement(st, user, embedding, statement) ==
    IF statement.kind = "user"
    THEN [users |-> MergeNode(st.users, user.id, UserParams(user, embedding)),
          skills |-> st.skills]
    ELSE LET skill_name == statement.name
             skill_id == UserSkillId(skill_name)
         IN  [users |-> MergePattern(st.users, user.id, SkillSlot(skill_id)),
              skills |-> MergeSkill(st.skills, skill_id, skill_name)]

RECURSIVE UserSkillLoop(_, _, _, _)
UserSkillLoop(st, user, embedding, statements) ==
    IF statements = <<>> THEN st
    ELSE UserSkillLoop(UserStatement(st, user, embedding, Head(statements)), user,
                       embedding, Tail(statements))

(* The whole call on a store that answers and that no other call writes. *)
create_or_update_user(users, skills, user, outcome) ==
    UserSkillLoop([users |-> users, skills |-> skills], user,
                  EmbeddedResume(user, outcome), UserStatements(user))

----------------------------------------------------------------------------
(* VacancyService.save_vacancy: the MERGE of the listing, one statement    *)
(* per skill, one for the company and one for the location.                *)
(* execute_query never raises, so the minimal-save fallback is not         *)
(* entered.                                                                *)

(* No employer or no area in the response: the empty string. *)
NoName == <<>>

(* vacancy.embedding after lines 28-31, for a listing that comes without   *)
(* embedding, as parse_to_model builds it: the text is                     *)
(* f"{vacancy.title}. {vacancy.description}", which is not blank whatever  *)
(* the title; the listings are drawn with the title T.                     *)
EmbeddedListing(vacancy, outcome) ==
    IF vacancy.description # ""
    THEN get_embedding(<<"T", ". ", vacancy.description>>, outcome)
    ELSE <<>>

(* vacancy_dict after the None -> "" and list -> [str(item)] rewriting     *)
(* (each float of the embedding becomes its str); the empty string is the  *)
(* empty sequence of characters.                                           *)
VacancyParams(vacancy, e) ==
    [description |-> vacancy.description,
         embedding |-> [i \in DOMAIN e |-> [str |-> e[i].float]],
         company_name |-> vacancy.company_name,
         location_name |-> vacancy.location_name,
         skills |-> vacancy.skills]

(* The statements of one call, in the order they are sent: a skill that is *)
(* an empty string is passed over, and so are an empty company name and an *)
(* empty location name.                                                    *)
VacancyStatements(vacancy) ==
    LET Named(statement) == statement.name # <<>>
        skills == [i \in 1..Len(vacancy.skills) |->
                      [kind |-> "skill", name |-> vacancy.skills[i]]]
    IN  <<[kind |-> "vacancy", name |-> <<>>]>> \o
        SelectSeq(skills \o
                  <<[kind |-> "company", name |-> vacancy.company_name],
                    [kind |-> "location", name |-> vacancy.location_name]>>,
                  Named)

(* The store after one statement; st holds the Vacancy and the Skill       *)
(* nodes.                                                                  *)
VacancyStatement(st, vacancy, embedding, statement) ==
    IF statement.kind = "vacancy"
    THEN [vacancies |-> MergeNode(st.vacancies, vacancy.id,
                                  VacancyParams(vacancy, embedding)),
          skills |-> st.skills]
    ELSE IF statement.kind = "skill"
    THEN LET skill_name == statement.name
             skill_id == VacancySkillId(skill_name)
         IN  [vacancies |-> MergePattern(st.vacancies, vacancy.id, SkillSlot(skill_id)),
              skills |-> MergeSkill(st.skills, skill_id, skill_name)]
    ELSE IF statement.kind = "company"
    THEN [vacancies |-> MergePattern(st.vacancies, vacancy.id,
                                     CompanySlot(CompanyId(statement.name))),
          skills |-> st.skills]
    ELSE [vacancies |-> MergePattern(st.vacancies, vacancy.id,
                                     LocationSlot(LocationId(statement.name))),
          skills |-> st.skills]

RECURSIVE VacancySkillLoop(_, _, _, _)
VacancySkillLoop(st, vacancy, embedding, statements) ==
    IF statements = <<>> THEN st
    ELSE VacancySkillLoop(VacancyStatement(st, vacancy, embedding, Head(statements)),
                          vacancy, embedding, Tail(statements))

(* The whole call on a store that answers and that no other call writes;  *)
(* a listing without id is refused before any statement.                   *)
save_vacancy(vacancies, skills, vacancy, outcome) ==
    IF vacancy.id = "" THEN [vacancies |-> vacancies, skills |-> skills]
    ELSE VacancySkillLoop([vacancies |-> vacancies, skills |-> skills], vacancy,
                          EmbeddedListing(vacancy, outcome), VacancyStatements(vacancy))

----------------------------------------------------------------------------
(* FeedbackService.record_feedback and the preference update it triggers.  *)

(* MATCH (u:User {id}) MATCH (v:Vacancy {id}) MERGE (u)-[r:TYPE]->(v)      *)
(* SET r.timestamp = $timestamp: one relationship of the type per matched  *)
(* pair of nodes.                                                          *)
MergeFeedback(r, users, vacancies, feedback) ==
    LET pairs == {<<u, v, feedback.feedback_type>> :
                     u \in NodesOf(users, feedback.user_id),
                     v \in NodesOf(vacancies, feedback.vacancy_id)}
    IN  [k \in (DOMAIN r) \cup pairs |->
            IF k \in pairs THEN feedback.timestamp ELSE r[k]]

(* results[0].get('skills', []) of the skills query, [] standing also for  *)
(* no row and for a null; vfirst is the node of results[0].                *)
ListingSkills(vacancies, vacancy_id, vfirst) ==
    IF NodesOf(vacancies, vacancy_id) = {} THEN <<>>
    ELSE IF Has(vacancies[vfirst], "skills") THEN vacancies[vfirst].skills
    ELSE <<>>

(* An update that is never skipped: the skipped update must tell it from   *)
(* NoSkillsToUpdate.                                                       *)
NoSkillsToUpdateNever(skills) == FALSE

(* 'if not results: return' and 'if not skills: return' *)
NoSkillsToUpdate(skills) == skills = <<>>

(* The keys of skill_weights, in insertion order. *)
RECURSIVE SkillWeightKeys(_, _)
SkillWeightKeys(skills, seen) ==
    IF skills = <<>> THEN <<>>
    ELSE LET skill_id == FeedbackSkillId(Head(skills))
         IN  IF skill_id \in seen THEN SkillWeightKeys(Tail(skills), seen)
             ELSE <<skill_id>> \o SkillWeightKeys(Tail(skills), seen \cup {skill_id})

(* weight_per_skill = 1.0 / len(skills) *)
WeightPerSkill(skills) == Rat(1, Len(skills))

(* A clamp without its upper half: the bound on stored weights must tell  *)
(* it from Clamp01.                                                        *)
ClampedBelowOnly(x) == RMax(Zero, x)

(* max(0, min(1, new_weight)) *)
Clamp01(x) == RMax(Zero, IF RLt(x, One) THEN x ELSE One)

(* A move that takes every feedback for a LIKE: the update rule must tell  *)
(* it from Moved.                                                          *)
MovedAlwaysUp(current_weight, feedback_type, weight_change, learning_rate) ==
    RAdd(current_weight, RMul(learning_rate, weight_change))

(* new_weight = current_weight +/- settings.learning_rate * weight_change, *)
(* with the learning rate as the pass reads it.                            *)
Moved(current_weight, feedback_type, weight_change, learning_rate) ==
    IF feedback_type = LIKE
    THEN RAdd(current_weight, RMul(learning_rate, weight_change))
    ELSE RSub(current_weight, RMul(learning_rate, weight_change))

(* new_weight * (1 - settings.regularization_lambda), clamped, with the    *)
(* regularization as the pass reads it.                                    *)
Regularized(new_weight, regularization_lambda) ==
    Clamp01(RMul(new_weight, RSub(One, regularization_lambda)))

(* A loop that stops after its first pass: the all-or-nothing update must  *)
(* tell it from RemainingKeys.                                             *)
RemainingKeysNone(keys) == <<>>

(* The keys the loop has still to pass after the one it is at. *)
RemainingKeys(keys) == Tail(keys)

(* The loop of update_user_preferences when settings does not change       *)
(* while it runs.                                                          *)
RECURSIVE UpdateWeights(_, _, _, _, _)
UpdateWeights(current_prefs, keys, feedback_type, weight_change, cfg) ==
    IF keys = <<>> THEN current_prefs
    ELSE LET skill_id == PreferenceSkillId(Head(keys))
             current_weight == Get(current_prefs, skill_id, Zero)
             new_weight == Moved(current_weight, feedback_type, weight_change,
                                 cfg.learning_rate)
             updated == (skill_id :> Regularized(new_weight, cfg.regularization_lambda))
                        @@ current_prefs
         IN  UpdateWeights(updated, Tail(keys), feedback_type, weight_change, cfg)

(* MATCH (u:User {id: $user_id}) SET u.preferences = $preferences *)
SetPreferences(users, user_id, preferences) ==
    [n \in DOMAIN users |->
        IF n[1] = user_id
        THEN ("preferences" :> preferences) @@ users[n]
        ELSE users[n]]

----------------------------------------------------------------------------
(* Query results and the scorers of VacancyService.                        *)

Min(a, b) == IF a < b THEN a ELSE b

(* ORDER BY score DESC: rows of equal score keep an order of the store's   *)
(* choosing, which no caller below can observe while the rows are fewer    *)
(* than QueryLimit.                                                        *)
RECURSIVE InsertByScore(_, _)
InsertByScore(sorted, row) ==
    IF sorted = <<>> THEN <<row>>
    ELSE IF RLt(Head(sorted).score, row.score) THEN <<row>> \o sorted
    ELSE <<Head(sorted)>> \o InsertByScore(Tail(sorted), row)

RECURSIVE OrderByScoreDesc(_)
OrderByScoreDesc(rows) ==
    IF rows = <<>> THEN <<>>
    ELSE InsertByScore(OrderByScoreDesc(SubSeq(rows, 1, Len(rows) - 1)),
                       rows[Len(rows)])

(* LIMIT n *)
Limit(rows, n) == SubSeq(rows, 1, Min(Len(rows), n))

(* {r['vacancy_id']: r['score'] for r in results}: a later row replaces an *)
(* earlier one of the same key.                                            *)
RECURSIVE RowsToDict(_)
RowsToDict(results) ==
    IF results = <<>> THEN EmptyDict
    ELSE LET r == results[Len(results)]
         IN  (r.vacancy_id :> r.score) @@ RowsToDict(SubSeq(results, 1, Len(results) - 1))

(* size([skill IN vacancy_skills WHERE skill IN user_skills]); skill IN    *)
(* null is null, which the WHERE of the comprehension drops.               *)
Matches(vacancy_skills, u) ==
    IF Has(u, "skills")
    THEN Cardinality({i \in DOMAIN vacancy_skills :
                         vacancy_skills[i] \in Range(u.skills)})
    ELSE 0

(* The rows of the content query: one per pair of a User node of the id    *)
(* and a Vacancy node with size(v.skills) > 0 (null > 0 is not true).      *)
ContentQuery(users, vacancies, user_id) ==
    LET pairs == {<<u, v>> \in NodesOf(users, user_id) \X DOMAIN vacancies :
                     /\ Has(vacancies[v], "skills")
                     /\ Len(vacancies[v].skills) > 0}
        found == SetToSeq(pairs)
        rows == [i \in DOMAIN found |->
                    LET u == users[found[i][1]]
                        v == vacancies[found[i][2]]
                    IN  [vacancy_id |-> found[i][2][1],
                         score |-> Rat(Matches(v.skills, u), Len(v.skills))]]
    IN  Limit(OrderByScoreDesc(rows), QueryLimit)

_get_content_recommendations(users, vacancies, user_id) ==
    RowsToDict(ContentQuery(users, vacancies, user_id))

(* The User nodes u2 of the first MATCH of the graph query: they have a    *)
(* HAS_SKILL to a Skill that a node of the target id has one to.           *)
SimilarUsers(users, user_id) ==
    {u2 \in DOMAIN users :
        /\ u2[2][1] = "skill"
        /\ u2[1] # user_id
        /\ <<user_id, u2[2]>> \in DOMAIN users}

(* NOT EXISTS((:User {id: $user_id})-[:LIKED|DISLIKED]->(v)) *)
NotRated(r, users, user_id, v) ==
    ~ \E u \in NodesOf(users, user_id) :
        <<u, v, LIKE>> \in DOMAIN r \/ <<u, v, DISLIKE>> \in DOMAIN r

GraphQuery(users, vacancies, r, user_id) ==
    LET likers(v) == {u2 \in SimilarUsers(users, user_id) : <<u2, v, LIKE>> \in DOMAIN r}
        hit == {v \in DOMAIN vacancies :
                   likers(v) # {} /\ NotRated(r, users, user_id, v)}
        found == SetToSeq(hit)
        rows == [i \in DOMAIN found |->
                    [vacancy_id |-> found[i][1],
                     score |-> Rat(Cardinality(likers(found[i])), 1)]]
    IN  Limit(OrderByScoreDesc(rows), QueryLimit)

_get_graph_recommendations(users, vacancies, r, user_id) ==
    RowsToDict(GraphQuery(users, vacancies, r, user_id))

(* MATCH (v:Vacancy) WHERE v.embedding IS NOT NULL ... LIMIT 100 *)
EmbeddingQuery(vacancies) ==
    LET found == SetToSeq({v \in DOMAIN vacancies : Has(vacancies[v], "embedding")})
    IN  Limit([i \in DOMAIN found |->
                  [vacancy_id |-> found[i][1],
                   vacancy_embedding |-> vacancies[found[i]].embedding]],
              QueryLimit)

RECURSIVE SemanticLoop(_, _)
SemanticLoop(user_embedding, rows) ==
    IF rows = <<>> THEN EmptyDict
    ELSE LET vac == rows[Len(rows)]
             before == SemanticLoop(user_embedding, SubSeq(rows, 1, Len(rows) - 1))
         IN  IF vac.vacancy_embedding # <<>>
             THEN (vac.vacancy_id :>
                      RMax(Zero, get_similarity(user_embedding, vac.vacancy_embedding)))
                  @@ before
             ELSE before

(* user_data[0]['embedding'] when the user query has a row that carries   *)
(* one, <<>> when not; first is the User node of user_data[0].             *)
UserEmbedding(users, user_id, first) ==
    IF NodesOf(users, user_id) = {} THEN <<>>
    ELSE IF ~ Has(users[first], "embedding") THEN <<>>
    ELSE users[first].embedding

(* The semantic scorer on a store that answers and that no other call      *)
(* writes between its two queries.                                         *)
_get_semantic_recommendations(users, vacancies, user_id, first) ==
    LET user_embedding == UserEmbedding(users, user_id, first)
    IN  IF user_embedding = <<>> THEN EmptyDict
        ELSE SemanticLoop(user_embedding, EmbeddingQuery(vacancies))

----------------------------------------------------------------------------
(* VacancyService._combine_recommendations                                 *)

(* A lookup that answers for every id: the handling of stale ids must tell *)
(* it from _get_vacancy_by_id.                                             *)
_get_vacancy_by_id_any(vacancies, vacancy_id) == <<VacancyFromDict(vacancy_id)>>

(* _get_vacancy_by_id: <<>> is None.  Every node of the id carries the id, *)
(* the one field of the resolved record that is modelled.                  *)
_get_vacancy_by_id(vacancies, vacancy_id) ==
    IF NodesOf(vacancies, vacancy_id) = {} THEN <<>>
    ELSE <<VacancyFromDict(vacancy_id)>>

(* A division by max + 1, as a guard against a zero maximum would write    *)
(* it: idempotence must tell it from Normalize.                            *)
NormalizeSmoothed(scores, vacancy_id) ==
    LET score == Get(scores, vacancy_id, Zero)
        max_score == IF DOMAIN scores # {} THEN MaxValue(scores) ELSE One
    IN  RDiv(score, RAdd(max_score, One))

(* The raw score, never divided: the normalization property must tell it   *)
(* from Normalize.                                                         *)
NormalizeRaw(scores, vacancy_id) == Get(scores, vacancy_id, Zero)

(* One signal's score of a listing, divided by the maximum of its mapping  *)
(* when that is positive.                                                  *)
Normalize(scores, vacancy_id) ==
    LET score == Get(scores, vacancy_id, Zero)
        max_score == IF DOMAIN scores # {} THEN MaxValue(scores) ELSE One
    IN  IF RLt(Zero, max_score) THEN RDiv(score, max_score) ELSE score

(* The normalization of a whole mapping: what the loop computes for the    *)
(* ids of one signal.                                                      *)
NormalizeMap(scores) == [k \in DOMAIN scores |-> Normalize(scores, k)]

(* A total that forgets the graph term: the weighted-sum property must     *)
(* tell it from TotalScore.                                                *)
TotalScoreNoGraph(cfg, content_score, graph_score, semantic_score) ==
    RAdd(RMul(cfg.content_weight, content_score),
         RMul(cfg.semantic_weight, semantic_score))

TotalScore(cfg, content_score, graph_score, semantic_score) ==
    RAdd(RAdd(RMul(cfg.content_weight, content_score),
              RMul(cfg.graph_weight, graph_score)),
         RMul(cfg.semantic_weight, semantic_score))

(* list.sort(key=total_score, reverse=True): stable. *)
RECURSIVE InsertByTotal(_, _)
InsertByTotal(sorted, rec) ==
    IF sorted = <<>> THEN <<rec>>
    ELSE IF RLt(Head(sorted).total_score, rec.total_score) THEN <<rec>> \o sorted
    ELSE <<Head(sorted)>> \o InsertByTotal(Tail(sorted), rec)

(* A sort that leaves the list as the loop built it: the ordering property *)
(* must tell it from SortByTotalDesc.                                      *)
SortByTotalSkipped(recs) == recs

RECURSIVE SortByTotalDesc(_)
SortByTotalDesc(recs) ==
    IF recs = <<>> THEN <<>>
    ELSE InsertByTotal(SortByTotalDesc(SubSeq(recs, 1, Len(recs) - 1)),
                       recs[Len(recs)])

(* The ids that all three mappings score: graceful degradation must tell   *)
(* it from AllIds.                                                         *)
AllIdsCommon(content_scores, graph_scores, semantic_scores) ==
    (DOMAIN content_scores) \cap (DOMAIN graph_scores) \cap (DOMAIN semantic_scores)

AllIds(content_scores, graph_scores, semantic_scores) ==
    (DOMAIN content_scores) \cup (DOMAIN graph_scores) \cup (DOMAIN semantic_scores)

(* One pass of the loop up to the lookup: the scores of a listing under    *)
(* the weights that settings holds during the pass.                        *)
Scored(content_scores, graph_scores, semantic_scores, cfg, vacancy_id) ==
    LET content_score == Normalize(content_scores, vacancy_id)
        graph_score == Normalize(graph_scores, vacancy_id)
        semantic_score == Normalize(semantic_scores, vacancy_id)
    IN  [content_score |-> content_score,
         graph_score |-> graph_score,
         semantic_score |-> semantic_score,
         total_score |-> TotalScore(cfg, content_score, graph_score, semantic_score)]

(* The rest of the pass: the candidate is appended when the lookup found   *)
(* the listing.                                                            *)
Appended(recommendations, scored, vacancy) ==
    IF vacancy # <<>>
    THEN Append(recommendations,
                [vacancy |-> vacancy[1],
                 content_score |-> scored.content_score,
                 graph_score |-> scored.graph_score,
                 semantic_score |-> scored.semantic_score,
                 total_score |-> scored.total_score])
    ELSE recommendations

(* A ranking that cuts the list to the limit before it sorts it: the       *)
(* choice of the returned candidates must tell it from SortedThenCut.      *)
CutThenSorted(recommendations, limit) ==
    SortByTotalDesc(PySlice(recommendations, limit))

(* The end of _combine_recommendations: the sort and the slice. *)
SortedThenCut(recommendations, limit) ==
    PySlice(SortByTotalDesc(recommendations), limit)


----------------------------------------------------------------------------
(* State machine.                                                          *)
(*                                                                         *)
(* A step is one statement sent to the store, together with the code that  *)
(* runs from its answer up to the next statement or to the return; the     *)
(* construction of a feedback, which reads the clock, and each assignment  *)
(* of a page to config.settings are steps of their own.  The services and  *)
(* the settings object are shared by the sessions of the application       *)
(* (init_services is cached, settings is a module attribute), every        *)
(* statement is a transaction of its own, and nothing orders the steps of  *)
(* one session against those of another or against the store becoming      *)
(* unreachable.  pending[session] holds the locals of the session's call   *)
(* or page between two of its steps; last is the record of the call or     *)
(* page that ended in the latest step, and NoCall after a step in which    *)
(* none ended.                                                             *)

DefaultSettings ==
    [content_weight |-> Rat(3, 10),
     graph_weight |-> Rat(4, 10),
     semantic_weight |-> Rat(3, 10),
     learning_rate |-> Rat(1, 10),
     regularization_lambda |-> Rat(1, 100)]

NoCall == [op |-> "none"]

(* No search has been made. *)
NoFetch == [pc |-> "idle"]

Init ==
    /\ userNodes = <<>>
    /\ vacancyNodes = <<>>
    /\ skillNodes = <<>>
    /\ rels = <<>>
    /\ settings = DefaultSettings
    /\ clock = 0
    /\ last = NoCall
    /\ calls = [profile |-> 0, vacancy |-> 0, feedback |-> 0, page |-> 0]
    /\ drawn = NoCall
    /\ connected = TRUE
    /\ pending = <<>>
    /\ fetch = NoFetch

(* Browser sessions of the application; Alone is one session by itself. *)
Sessions == {"a", "b"}
Alone == {"a"}

(* Neo4jClient.execute_query never raises.  A read that fails returns no    *)
(* rows, which is what the same read returns on an empty store; a write    *)
(* that fails changes nothing.                                             *)
ReachableAlways(nodes) == nodes

Reachable(nodes) == IF connected THEN nodes ELSE <<>>
Committed(old, new) == IF connected THEN new ELSE old

(* The statements of a call that the store has not answered, this one      *)
(* included when the store is unreachable.                                 *)
Failed(failed, statement) == IF connected THEN failed ELSE failed \cup {statement}

(* The node a single-row read returns: any node of the id. *)
FirstRows(nodes, id) ==
    IF NodesOf(nodes, id) = {} THEN {<<id, Main>>} ELSE NodesOf(nodes, id)

(* The call waits for the answer to its next statement. *)
Suspend(session, call) ==
    /\ pending' = (session :> call) @@ pending
    /\ last' = NoCall

(* The call returns. *)
Return(session, record) ==
    /\ pending' = [s \in (DOMAIN pending) \ {session} |-> pending[s]]
    /\ last' = record

(* One statement of create_or_update_user. *)
CreateOrUpdateUserStatement(session, call) ==
    LET st == UserStatement([users |-> userNodes, skills |-> skillNodes], call.user,
                            call.embedding, Head(call.statements))
        rest == Tail(call.statements)
    IN  /\ userNodes' = Committed(userNodes, st.users)
        /\ skillNodes' = Committed(skillNodes, st.skills)
        /\ UNCHANGED <<vacancyNodes, rels>>
        /\ IF rest = <<>>
           THEN Return(session, [op |-> "create_or_update_user", session |-> session,
                                 user |-> call.user, result |-> TRUE])
           ELSE Suspend(session, [call EXCEPT !.statements = rest])

(* Profile form: User(id, username, resume_text, skills).  The call asks   *)
(* for the embedding and sends its first statement.                        *)
CreateOrUpdateUser(session, user) ==
    /\ session \notin DOMAIN pending
    /\ calls.profile < MaxProfileSaves
    /\ calls' = [calls EXCEPT !.profile = @ + 1]
    /\ \E embedding \in {EmbeddedResume(user, outcome) : outcome \in ProviderOutcomes} :
          CreateOrUpdateUserStatement(session,
              [op |-> "create_or_update_user", user |-> user, embedding |-> embedding,
               statements |-> UserStatements(user)])
    /\ UNCHANGED <<settings, clock, drawn, connected, fetch>>

(* One statement of save_vacancy. *)
SaveVacancyStatement(session, call) ==
    LET st == VacancyStatement([vacancies |-> vacancyNodes, skills |-> skillNodes],
                               call.vacancy, call.embedding, Head(call.statements))
        rest == Tail(call.statements)
    IN  /\ vacancyNodes' = Committed(vacancyNodes, st.vacancies)
        /\ skillNodes' = Committed(skillNodes, st.skills)
        /\ UNCHANGED <<userNodes, rels>>
        /\ IF rest = <<>>
           THEN Return(session, [op |-> "save_vacancy", session |-> session,
                                 vacancy |-> call.vacancy, result |-> TRUE])
           ELSE Suspend(session, [call EXCEPT !.statements = rest])

SaveVacancy(session, vacancy) ==
    /\ session \notin DOMAIN pending
    /\ calls.vacancy < MaxVacancySaves
    /\ calls' = [calls EXCEPT !.vacancy = @ + 1]
    /\ IF vacancy.id = ""
       THEN /\ Return(session, [op |-> "save_vacancy", session |-> session,
                                vacancy |-> vacancy, result |-> FALSE])
            /\ UNCHANGED <<userNodes, vacancyNodes, skillNodes, rels>>
       ELSE \E embedding \in {EmbeddedListing(vacancy, outcome) :
                                  outcome \in ProviderOutcomes} :
               SaveVacancyStatement(session,
                   [op |-> "save_vacancy", vacancy |-> vacancy, embedding |-> embedding,
                    statements |-> VacancyStatements(vacancy)])
    /\ UNCHANGED <<settings, clock, drawn, connected, fetch>>

(* What record_feedback and update_user_preferences return: record_feedback *)
(* True, as no statement raises; update_user_preferences nothing.          *)
FeedbackReturned(session, call, failed) ==
    IF call.op = "record_feedback"
    THEN [op |-> "record_feedback", session |-> session, user_id |-> call.user_id,
          vacancy_id |-> call.vacancy_id, feedback_type |-> call.feedback_type,
          failed |-> failed, result |-> TRUE]
    ELSE [op |-> "update_user_preferences", session |-> session,
          user_id |-> call.user_id, feedback_type |-> call.feedback_type,
          skills |-> call.skills, failed |-> failed]

(* One step of record_feedback or of update_user_preferences: the MERGE of *)
(* the relationship, the skills query, the read of get_user_by_id, in each *)
(* pass of the loop the read of settings.learning_rate and the read of     *)
(* settings.regularization_lambda, the SET of the preferences.             *)
FeedbackStatement(session, call) ==
    LET failed == Failed(call.failed, call.pc)
    IN  CASE call.pc = "edge" ->
               /\ rels' = Committed(rels,
                              MergeFeedback(rels, userNodes, vacancyNodes,
                                  [user_id |-> call.user_id,
                                   vacancy_id |-> call.vacancy_id,
                                   feedback_type |-> call.feedback_type,
                                   timestamp |-> call.timestamp]))
               /\ UNCHANGED <<userNodes, vacancyNodes, skillNodes>>
               /\ IF call.feedback_type \in {LIKE, DISLIKE}
                  THEN Suspend(session, [call EXCEPT !.pc = "skills", !.failed = failed])
                  ELSE Return(session, FeedbackReturned(session, call, failed))
          [] call.pc = "skills" ->
               /\ UNCHANGED <<userNodes, vacancyNodes, skillNodes, rels>>
               /\ \E vfirst \in FirstRows(Reachable(vacancyNodes), call.vacancy_id) :
                     LET skills == ListingSkills(Reachable(vacancyNodes),
                                                 call.vacancy_id, vfirst)
                     IN  IF NoSkillsToUpdate(skills)
                         THEN Return(session, FeedbackReturned(session, call, failed))
                         ELSE Suspend(session, [call EXCEPT !.pc = "user",
                                                            !.failed = failed,
                                                            !.skills = skills])
          [] call.pc = "user" ->
               /\ UNCHANGED <<userNodes, vacancyNodes, skillNodes, rels>>
               /\ LET users == Reachable(userNodes)
                  IN  IF NodesOf(users, call.user_id) = {}
                      THEN Return(session, FeedbackReturned(session, call, failed))
                      ELSE \E ufirst \in FirstRows(users, call.user_id) :
                              Suspend(session,
                                  [call EXCEPT
                                      !.pc = IF SkillWeightKeys(call.skills, {}) = <<>>
                                             THEN "preferences" ELSE "rate",
                                      !.failed = failed,
                                      !.keys = SkillWeightKeys(call.skills, {}),
                                      !.current_prefs =
                                          UserFromDict(users[ufirst]).preferences])
          [] call.pc = "rate" ->
               /\ UNCHANGED <<userNodes, vacancyNodes, skillNodes, rels>>
               /\ LET skill_id == PreferenceSkillId(Head(call.keys))
                      current_weight == Get(call.current_prefs, skill_id, Zero)
                  IN  Suspend(session,
                          [call EXCEPT
                              !.pc = "regularize",
                              !.learning_rate = settings.learning_rate,
                              !.new_weight =
                                  Moved(current_weight, call.feedback_type,
                                        WeightPerSkill(call.skills),
                                        settings.learning_rate)])
          [] call.pc = "regularize" ->
               /\ UNCHANGED <<userNodes, vacancyNodes, skillNodes, rels>>
               /\ LET skill_id == PreferenceSkillId(Head(call.keys))
                      keys == RemainingKeys(call.keys)
                  IN  Suspend(session,
                          [call EXCEPT
                              !.pc = IF keys = <<>> THEN "preferences" ELSE "rate",
                              !.keys = keys,
                              !.current_prefs =
                                  (skill_id :> Regularized(call.new_weight,
                                                   settings.regularization_lambda))
                                  @@ call.current_prefs])
          [] call.pc = "preferences" ->
               /\ userNodes' = Committed(userNodes,
                                   SetPreferences(userNodes, call.user_id,
                                                  json_dumps(call.current_prefs)))
               /\ UNCHANGED <<vacancyNodes, skillNodes, rels>>
               /\ Return(session, FeedbackReturned(session, call, failed))

(* The page builds UserFeedback(user_id, vacancy_id, feedback_type), whose *)
(* constructor reads the clock, and then calls record_feedback: the first  *)
(* statement of the call is sent in a later step, with the timestamp read  *)
(* here.                                                                   *)
RecordFeedback(session, user_id, vacancy_id, feedback_type) ==
    /\ session \notin DOMAIN pending
    /\ calls' = [calls EXCEPT !.feedback = @ + 1]
    /\ clock' = clock + 1
    /\ Suspend(session,
           [op |-> "record_feedback", pc |-> "edge", user_id |-> user_id,
            vacancy_id |-> vacancy_id, feedback_type |-> feedback_type,
            timestamp |-> clock + 1, failed |-> {}, skills |-> <<>>,
            keys |-> <<>>, current_prefs |-> EmptyDict,
            learning_rate |-> Zero, new_weight |-> Zero])
    /\ UNCHANGED <<userNodes, vacancyNodes, skillNodes, rels, settings, drawn, connected, fetch>>

(* UserService.update_user_preferences called with the skill_weights that  *)
(* FeedbackService builds from a non-empty list of skills.                 *)
UpdateUserPreferences(session, user_id, feedback_type, skills) ==
    /\ session \notin DOMAIN pending
    /\ calls.feedback < MaxFeedback
    /\ calls' = [calls EXCEPT !.feedback = @ + 1]
    /\ FeedbackStatement(session,
           [op |-> "update_user_preferences", pc |-> "user", user_id |-> user_id,
            feedback_type |-> feedback_type, failed |-> {}, skills |-> skills,
            keys |-> <<>>, current_prefs |-> EmptyDict,
            learning_rate |-> Zero, new_weight |-> Zero])
    /\ UNCHANGED <<settings, clock, drawn, connected, fetch>>

(* What get_recommendations returns, with the three score mappings and,    *)
(* for each id of the loop, the settings that held during its pass.        *)
Ranking(session, call, failed, result) ==
    [op |-> "get_recommendations",
     session |-> session,
     user_id |-> call.user_id,
     limit |-> call.limit,
     failed |-> failed,
     content_scores |-> call.content_scores,
     graph_scores |-> call.graph_scores,
     semantic_scores |-> call.semantic_scores,
     weights |-> call.weights,
     result |-> result]

(* _combine_recommendations up to its first lookup: all_ids in the         *)
(* iteration order of the set, and the scores of the first id.             *)
CombineFrom(session, call) ==
    LET all_ids == AllIds(call.content_scores, call.graph_scores, call.semantic_scores)
    IN  IF all_ids = {}
        THEN Return(session, Ranking(session, call, call.failed,
                                     SortedThenCut(<<>>, call.limit)))
        ELSE \E order \in Perms(all_ids) :
                Suspend(session, [call EXCEPT !.pc = "lookup",
                                              !.order = order,
                                              !.weights = (Head(order) :> settings)])

(* One statement of get_recommendations: the content query, the graph      *)
(* query, the user query and the listings query of the semantic scorer,    *)
(* the lookup of one id.                                                   *)
GetRecommendationsStatement(session, call) ==
    LET failed == Failed(call.failed, call.pc)
    IN  /\ UNCHANGED <<userNodes, vacancyNodes, skillNodes, rels>>
        /\ CASE call.pc = "content" ->
                  Suspend(session,
                      [call EXCEPT
                          !.pc = "graph",
                          !.failed = failed,
                          !.content_scores =
                              _get_content_recommendations(
                                  Reachable(userNodes), Reachable(vacancyNodes),
                                  call.user_id)])
             [] call.pc = "graph" ->
                  Suspend(session,
                      [call EXCEPT
                          !.pc = "semantic_user",
                          !.failed = failed,
                          !.graph_scores =
                              _get_graph_recommendations(
                                  Reachable(userNodes), Reachable(vacancyNodes),
                                  Reachable(rels), call.user_id)])
             [] call.pc = "semantic_user" ->
                  \E ufirst \in FirstRows(Reachable(userNodes), call.user_id) :
                      LET user_embedding == UserEmbedding(Reachable(userNodes),
                                                          call.user_id, ufirst)
                      IN  IF user_embedding = <<>>
                          THEN CombineFrom(session, [call EXCEPT !.failed = failed])
                          ELSE Suspend(session,
                                   [call EXCEPT !.pc = "semantic_vacancies",
                                                !.failed = failed,
                                                !.user_embedding = user_embedding])
             [] call.pc = "semantic_vacancies" ->
                  CombineFrom(session,
                      [call EXCEPT
                          !.failed = failed,
                          !.semantic_scores =
                              SemanticLoop(call.user_embedding,
                                           EmbeddingQuery(Reachable(vacancyNodes)))])
             [] call.pc = "lookup" ->
                  LET vacancy_id == Head(call.order)
                      rest == Tail(call.order)
                      scored == Scored(call.content_scores, call.graph_scores,
                                       call.semantic_scores, call.weights[vacancy_id],
                                       vacancy_id)
                      recommendations ==
                          Appended(call.recommendations, scored,
                                   _get_vacancy_by_id(Reachable(vacancyNodes), vacancy_id))
                  IN  IF rest = <<>>
                      THEN Return(session,
                               Ranking(session, call, failed,
                                       SortedThenCut(recommendations, call.limit)))
                      ELSE Suspend(session,
                               [call EXCEPT
                                   !.order = rest,
                                   !.failed = failed,
                                   !.recommendations = recommendations,
                                   !.weights = (Head(rest) :> settings) @@ @])

(* The locals of a ranking before its first statement. *)
RankingCall(user_id, limit, pc) ==
    [op |-> "get_recommendations", pc |-> pc, user_id |-> user_id, limit |-> limit,
     failed |-> {}, content_scores |-> EmptyDict, graph_scores |-> EmptyDict,
     semantic_scores |-> EmptyDict, user_embedding |-> <<>>, order |-> <<>>,
     weights |-> <<>>, recommendations |-> <<>>]

GetRecommendations(session, user_id, limit) ==
    /\ session \notin DOMAIN pending
    /\ GetRecommendationsStatement(session, RankingCall(user_id, limit, "content"))
    /\ UNCHANGED <<settings, clock, calls, drawn, connected, fetch>>

(* One assignment to the settings object, which every session shares: the *)
(* pages assign the attributes one by one, and the widgets drawn between   *)
(* two assignments let the other sessions run.                             *)
AssignSetting(session, call) ==
    LET assignment == Head(call.assignments)
    IN  /\ settings' = [settings EXCEPT ![assignment.name] = assignment.value]
        /\ UNCHANGED <<userNodes, vacancyNodes, skillNodes, rels>>
        /\ IF Len(call.assignments) = 1
              THEN Return(session, [op |-> call.op, session |-> session])
              ELSE Suspend(session, [call EXCEPT !.assignments = Tail(@)])

(* Recommendations page: the content slider is stored, then the semantic   *)
(* slider, then the graph weight as the rest of the two values read.       *)
RecommendationSliders(session, content_weight, semantic_weight) ==
    /\ session \notin DOMAIN pending
    /\ calls.page < MaxPages
    /\ calls' = [calls EXCEPT !.page = @ + 1]
    /\ AssignSetting(session,
           [op |-> "sliders",
            assignments |->
              << [name |-> "content_weight", value |-> content_weight],
                 [name |-> "semantic_weight", value |-> semantic_weight],
                 [name |-> "graph_weight",
                  value |-> RSub(RSub(One, content_weight), semantic_weight)] >>])
    /\ UNCHANGED <<clock, drawn, connected, fetch>>

(* Settings page: the three weights are stored one by one when they sum to *)
(* 1 within 0.01; the learning sliders are stored as they stand, one after *)
(* the other.                                                              *)
SettingsPage(session, content_weight, graph_weight, semantic_weight, learning_rate, regularization) ==
    LET total_weight == RAdd(RAdd(content_weight, graph_weight), semantic_weight)
        diff == RSub(total_weight, One)
        off == IF RLt(diff, Zero) THEN RSub(Zero, diff) ELSE diff
        weights == IF RLt(Rat(1, 100), off) THEN <<>>
                   ELSE << [name |-> "content_weight", value |-> content_weight],
                           [name |-> "graph_weight", value |-> graph_weight],
                           [name |-> "semantic_weight", value |-> semantic_weight] >>
    IN  /\ session \notin DOMAIN pending
        /\ calls.page < MaxPages
        /\ calls' = [calls EXCEPT !.page = @ + 1]
        /\ AssignSetting(session,
               [op |-> "settings",
                assignments |-> weights \o
                  << [name |-> "learning_rate", value |-> learning_rate],
                     [name |-> "regularization_lambda", value |-> regularization] >>])
        /\ UNCHANGED <<clock, drawn, connected, fetch>>

(* The next statement of the call a session is in. *)
Continue(session) ==
    /\ session \in DOMAIN pending
    /\ LET call == pending[session]
       IN  IF call.op \in {"sliders", "settings"}
             THEN AssignSetting(session, call)
             ELSE /\ UNCHANGED settings
                  /\ CASE call.op = "create_or_update_user" ->
                            CreateOrUpdateUserStatement(session, call)
                       [] call.op = "save_vacancy" ->
                            SaveVacancyStatement(session, call)
                       [] call.op = "get_recommendations" ->
                            GetRecommendationsStatement(session, call)
                       [] OTHER -> FeedbackStatement(session, call)
    /\ UNCHANGED <<clock, calls, drawn, connected, fetch>>

(* Inputs of the default specification: profiles as the form builds them, *)
(* with a resume and one or two skills, and one listing without            *)
(* description, with or without employer and area.                         *)
P == <<"P">>
S == <<"S">>

Users == [id : UserIds, resume_text : {"r1"}, skills : {<<P>>, <<P, S>>}]
Vacancies ==
    {[id |-> "v1", description |-> "", skills |-> <<>>,
      company_name |-> NoName, location_name |-> NoName],
     [id |-> "v1", description |-> "", skills |-> <<P>>,
      company_name |-> NoName, location_name |-> NoName],
     [id |-> "v1", description |-> "", skills |-> <<P>>,
      company_name |-> <<"A", " ", "M", ".">>, location_name |-> <<"M">>]}

Next ==
    \/ \E session \in Alone, user \in Users : CreateOrUpdateUser(session, user)
    \/ \E session \in Alone, vacancy \in Vacancies : SaveVacancy(session, vacancy)
    \/ \E session \in Alone, u \in UserIds, t \in FeedbackType :
          calls.feedback < MaxFeedback /\ RecordFeedback(session, u, "v1", t)
    \/ \E session \in Alone, u \in UserIds : GetRecommendations(session, u, MaxLimit)
    \/ \E session \in Alone : Continue(session)

Spec == Init /\ [][Next]_vars

----------------------------------------------------------------------------
(* Two sessions on the shared services: one profile and one listing, saved *)
(* and rated while the other session saves, rates or asks for a ranking.   *)

NextShared ==
    \/ \E session \in Sessions :
          CreateOrUpdateUser(session, [id |-> "u1", resume_text |-> "r1", skills |-> <<P>>])
    \/ \E session \in Sessions :
          SaveVacancy(session, [id |-> "v1", description |-> "", skills |-> <<P>>,
                                company_name |-> <<"A", " ", "M", ".">>, location_name |-> NoName])
    \/ \E session \in Sessions, t \in {LIKE, VIEW} :
          calls.feedback < MaxFeedback /\ RecordFeedback(session, "u1", "v1", t)
    \/ \E session \in Sessions : GetRecommendations(session, "u1", MaxLimit)
    \/ \E session \in Sessions : Continue(session)

SpecShared == Init /\ [][NextShared]_vars

----------------------------------------------------------------------------
(* Profiles with a resume, blank or not, and listings with a description:  *)
(* the semantic signal.                                                    *)

ResumeUsers == [id : {"u1"}, resume_text : {" ", "r1"}, skills : {<<>>, <<P>>}]
DescribedVacancies ==
    [id : VacancyIds \cup {""}, description : {"", "d1", "d2"}, skills : {<<>>, <<P>>},
     company_name : {NoName}, location_name : {NoName}]

NextSemantic ==
    \/ \E session \in Alone, user \in ResumeUsers : CreateOrUpdateUser(session, user)
    \/ \E session \in Alone, vacancy \in DescribedVacancies : SaveVacancy(session, vacancy)
    \/ \E session \in Alone : GetRecommendations(session, "u1", MaxLimit)
    \/ \E session \in Alone : Continue(session)

SpecSemantic == Init /\ [][NextSemantic]_vars

----------------------------------------------------------------------------
(* The ranker on score mappings drawn from the values the scorers produce, *)
(* in one session, while the two pages of the application assign the       *)
(* weights one by one in another.                                          *)

ContentMaps == UNION {[d -> {Zero, Rat(2, 3)}] : d \in SUBSET VacancyIds}
GraphMaps == {EmptyDict, ("v1" :> Rat(1, 1)), ("v1" :> Rat(1, 1)) @@ ("v2" :> Rat(2, 1))}
SemanticMaps == {EmptyDict, ("v2" :> Rat(24, 25))}

(* A listing saved without skills, description, employer and area. *)
Bare(id) ==
    [id |-> id, description |-> "", skills |-> <<>>,
     company_name |-> NoName, location_name |-> NoName]

(* The listings of the store at a ranking request: all of them, or v2      *)
(* gone (a stale reference).                                               *)
InitRank ==
    /\ userNodes = <<>>
    /\ \E ids \in {VacancyIds, {"v1"}} :
          vacancyNodes = [n \in ids \X {Main} |-> VacancyParams(Bare(n[1]), <<>>)]
    /\ skillNodes = <<>>
    /\ rels = <<>>
    /\ settings = DefaultSettings
    /\ clock = 0
    /\ last = NoCall
    /\ calls = [profile |-> 0, vacancy |-> 0, feedback |-> 0, page |-> 0]
    /\ \E c \in ContentMaps, g \in GraphMaps, s \in SemanticMaps :
          drawn = [content_scores |-> c, graph_scores |-> g, semantic_scores |-> s]
    /\ connected = TRUE
    /\ pending = <<>>
    /\ fetch = NoFetch

(* _combine_recommendations(content_scores, graph_scores, semantic_scores, *)
(* limit) on the drawn mappings.                                           *)
CombineRecommendations(session, limit) ==
    /\ session \notin DOMAIN pending
    /\ CombineFrom(session,
           [RankingCall("u1", limit, "lookup") EXCEPT
               !.content_scores = drawn.content_scores,
               !.graph_scores = drawn.graph_scores,
               !.semantic_scores = drawn.semantic_scores])
    /\ UNCHANGED <<userNodes, vacancyNodes, skillNodes, rels, settings, clock, calls, drawn, connected, fetch>>

(* The positions of the 0.05-step sliders that are drawn are 0, 0.4 and    *)
(* 0.6; at most MaxPages runs of a page are explored.                      *)
NextRank ==
    \/ \E session \in Sessions \ Alone, s \in {Zero, Rat(3, 5)} :
          RecommendationSliders(session, Rat(3, 5), s)
    \/ \E session \in Sessions \ Alone,
             w \in {<<Rat(2, 5), Rat(3, 5), Zero>>, <<Rat(3, 5), Rat(3, 5), Rat(3, 5)>>} :
          SettingsPage(session, w[1], w[2], w[3], settings.learning_rate,
                       settings.regularization_lambda)
    \/ \E session \in Alone, limit \in (-1)..MaxLimit :
          CombineRecommendations(session, limit)
    \/ \E session \in Sessions : Continue(session)

SpecRank == InitRank /\ [][NextRank]_vars

----------------------------------------------------------------------------
(* The normalization alone, applied again to its own output.               *)

Signals == {"content_scores", "graph_scores", "semantic_scores"}

NormalizeScores(signal) ==
    /\ drawn' = [drawn EXCEPT ![signal] = NormalizeMap(@)]
    /\ last' = [op |-> "normalize", signal |-> signal,
                scores |-> drawn[signal], normalized |-> NormalizeMap(drawn[signal])]
    /\ UNCHANGED <<userNodes, vacancyNodes, skillNodes, rels, settings, clock, calls,
                   connected, pending, fetch>>

NextNormalize == \E signal \in Signals : NormalizeScores(signal)

SpecNormalize == InitRank /\ [][NextNormalize]_vars

----------------------------------------------------------------------------
(* Feedback and the preference update of two sessions, on a store that     *)
(* holds two profiles and two listings, under the learning sliders of the  *)
(* settings page, which one of the sessions moves.                         *)

(* A listing with skills, without description, employer and area. *)
Requiring(id, skills) == [Bare(id) EXCEPT !.skills = skills]

(* A profile with skills and a resume. *)
Profile(id, resume_text, skills) ==
    [id |-> id, resume_text |-> resume_text, skills |-> skills]

(* u1 with skill P, u2 without skills, both with a resume, listing v1      *)
(* requiring P, listing v2 requiring P and S, each saved once.             *)
PrefsStore ==
    LET a == create_or_update_user(<<>>, <<>>, Profile("u1", "r1", <<P>>), Answered)
        b == create_or_update_user(a.users, a.skills, Profile("u2", "r1", <<>>), Answered)
        c == save_vacancy(<<>>, b.skills, Requiring("v1", <<P>>), Answered)
        d == save_vacancy(c.vacancies, c.skills, Requiring("v2", <<P, S>>), Answered)
    IN  [users |-> b.users, vacancies |-> d.vacancies, skills |-> d.skills]

InitPrefs ==
    /\ userNodes = PrefsStore.users
    /\ vacancyNodes = PrefsStore.vacancies
    /\ skillNodes = PrefsStore.skills
    /\ rels = <<>>
    /\ settings = DefaultSettings
    /\ clock = 0
    /\ last = NoCall
    /\ calls = [profile |-> 2, vacancy |-> 2, feedback |-> 0, page |-> 0]
    /\ drawn = NoCall
    /\ connected = TRUE
    /\ pending = <<>>
    /\ fetch = NoFetch

NextPrefs ==
    \/ \E session \in Sessions, u \in UserIds, v \in VacancyIds, t \in FeedbackType :
          calls.feedback < MaxFeedback /\ RecordFeedback(session, u, v, t)
    \/ \E session \in Sessions \ Alone, learning_rate \in {Rat(1, 10), Rat(1, 2)},
             regularization \in {Zero, Rat(1, 100)} :
          SettingsPage(session, settings.content_weight, settings.graph_weight,
                       settings.semantic_weight, learning_rate, regularization)
    \/ \E session \in Sessions : Continue(session)

SpecPrefs == InitPrefs /\ [][NextPrefs]_vars

----------------------------------------------------------------------------
(* Up to MaxLikes LIKE and DISLIKE events of u1 in one session, while      *)
(* another moves the learning sliders: at learning rate 1/2 the third LIKE *)
(* of the listing of the one skill P takes the weight above 1 before the   *)
(* clamp.                                                                  *)

NextClamp ==
    \/ \E session \in Alone, v \in VacancyIds, t \in {LIKE, DISLIKE} :
          calls.feedback < MaxLikes /\ RecordFeedback(session, "u1", v, t)
    \/ \E session \in Sessions \ Alone, learning_rate \in {Rat(1, 10), Rat(1, 2)},
             regularization \in {Zero, Rat(1, 100)} :
          SettingsPage(session, settings.content_weight, settings.graph_weight,
                       settings.semantic_weight, learning_rate, regularization)
    \/ \E session \in Sessions : Continue(session)

SpecClamp == InitPrefs /\ [][NextClamp]_vars

----------------------------------------------------------------------------
(* Two preference updates, drawn at the start, made by the sessions in any *)
(* interleaving of their statements: the read of get_user_by_id and the    *)
(* SET of the new mapping.                                                 *)

InitConcurrent ==
    /\ userNodes = PrefsStore.users
    /\ vacancyNodes = PrefsStore.vacancies
    /\ skillNodes = PrefsStore.skills
    /\ rels = <<>>
    /\ settings = DefaultSettings
    /\ clock = 0
    /\ last = NoCall
    /\ calls = [profile |-> 2, vacancy |-> 2, feedback |-> 0, page |-> 0]
    /\ drawn \in [1..MaxFeedback ->
                     [user_id : UserIds, feedback_type : {LIKE, DISLIKE},
                      skills : {<<P>>, <<P, S>>}]]
    /\ connected = TRUE
    /\ pending = <<>>
    /\ fetch = NoFetch

(* The next drawn update, made by a session. *)
UpdateDrawn(session) ==
    /\ calls.feedback < MaxFeedback
    /\ LET update == drawn[calls.feedback + 1]
       IN  UpdateUserPreferences(session, update.user_id, update.feedback_type,
                                 update.skills)

NextConcurrent ==
    \/ \E session \in Sessions : UpdateDrawn(session)
    \/ \E session \in Sessions : Continue(session)

SpecConcurrent == InitConcurrent /\ [][NextConcurrent]_vars

----------------------------------------------------------------------------
(* The store becoming unreachable and reachable again between the          *)
(* statements of the calls, on the store of two profiles and two listings. *)
(* While it is unreachable session.run raises inside execute_query for     *)
(* every statement.                                                        *)

StoreLost ==
    /\ connected
    /\ connected' = FALSE
    /\ last' = [op |-> "store_lost"]
    /\ UNCHANGED <<userNodes, vacancyNodes, skillNodes, rels, settings, clock, calls, drawn, pending, fetch>>

StoreRestored ==
    /\ ~connected
    /\ connected' = TRUE
    /\ last' = [op |-> "store_restored"]
    /\ UNCHANGED <<userNodes, vacancyNodes, skillNodes, rels, settings, clock, calls, drawn, pending, fetch>>

NextOutage ==
    \/ \E session \in Alone, u \in UserIds, t \in {LIKE, VIEW} :
          calls.feedback < MaxFeedback /\ RecordFeedback(session, u, "v1", t)
    \/ \E session \in Alone : GetRecommendations(session, "u1", MaxLimit)
    \/ \E session \in Alone : Continue(session)
    \/ StoreLost
    \/ StoreRestored

SpecOutage == InitPrefs /\ [][NextOutage]_vars

----------------------------------------------------------------------------
(* A ranking during which the store fails for some of its statements, on   *)
(* a store in which all three signals can be non-empty.                    *)

(* u1 and u2 with skill P, u1 with a resume and u2 with a blank one (no    *)
(* embedding); listings v1 and v2 requiring P, each with a description; u2 *)
(* liked v1, and the update of that LIKE was skipped (the row of the       *)
(* second v1 node came first) or stored.                                   *)
InitDegraded ==
    LET a == create_or_update_user(<<>>, <<>>, Profile("u1", "r1", <<P>>), Answered)
        b == create_or_update_user(a.users, a.skills, Profile("u2", " ", <<P>>), Answered)
        c == save_vacancy(<<>>, b.skills,
                          [Requiring("v1", <<P>>) EXCEPT !.description = "d1"], Answered)
        d == save_vacancy(c.vacancies, c.skills,
                          [Requiring("v2", <<P, S>>) EXCEPT !.description = "d2"], Answered)
        updated == UpdateWeights(EmptyDict, SkillWeightKeys(<<P>>, {}), LIKE,
                                 WeightPerSkill(<<P>>), DefaultSettings)
    IN  /\ userNodes \in {b.users, SetPreferences(b.users, "u2", json_dumps(updated))}
        /\ vacancyNodes = d.vacancies
        /\ skillNodes = d.skills
        /\ rels = MergeFeedback(<<>>, b.users, d.vacancies,
                      [user_id |-> "u2", vacancy_id |-> "v1",
                       feedback_type |-> LIKE, timestamp |-> 1])
        /\ settings = DefaultSettings
        /\ clock = 1
        /\ last = NoCall
        /\ calls = [profile |-> 2, vacancy |-> 2, feedback |-> 1, page |-> 0]
        /\ drawn = NoCall
        /\ connected = TRUE
        /\ pending = <<>>
        /\ fetch = NoFetch

NextDegraded ==
    \/ \E session \in Alone, u \in UserIds, limit \in 1..MaxLimit :
          GetRecommendations(session, u, limit)
    \/ \E session \in Alone : Continue(session)
    \/ StoreLost
    \/ StoreRestored

SpecDegraded == InitDegraded /\ [][NextDegraded]_vars

----------------------------------------------------------------------------
(* HHParser.search_vacancies.  Each GET is one step: the response is the   *)
(* listing source's choice.  fetch.gets counts the GETs made for the item  *)
(* at position fetch.i.                                                    *)

(* The items of a search response; "" is an item without id. *)
ItemIds == {"", "1", "2"}

(* HTTP status codes of a response; 0 stands for a                         *)
(* requests.exceptions.RequestException.                                   *)
Statuses == {0, 200, 404, 429, 500}

(* The loop position after position i: the next item that has an id. *)
NextItem(items, i) ==
    LET later == {j \in DOMAIN items : j > i /\ items[j] # ""}
    IN  IF later = {} THEN Len(items) + 1 ELSE CHOOSE j \in later : \A k \in later : j <= k

(* The state at loop position i, the call having returned when the items   *)
(* are exhausted.                                                          *)
AtItem(items, i, vacancies_data) ==
    [pc |-> IF i > Len(items) THEN "returned" ELSE "details",
     items |-> items, i |-> i, gets |-> 0, vacancies_data |-> vacancies_data]

(* search_vacancies up to the first detail request. *)
SearchVacancies(status, items) ==
    /\ fetch.pc # "details"
    /\ fetch' = IF status # 200 THEN AtItem(<<>>, 1, <<>>)
                ELSE AtItem(items, NextItem(items, 0), <<>>)
    /\ UNCHANGED <<userNodes, vacancyNodes, skillNodes, rels, settings, clock, last, calls, drawn, connected, pending>>

(* One GET of _get_vacancy_details_safe and what the loop does with its    *)
(* return value.  The JSON body of the response is the listing, or an      *)
(* empty object; on status 429 the call sleeps and sends the same request  *)
(* again.                                                                  *)
GetVacancyDetails(status, empty) ==
    /\ fetch.pc = "details"
    /\ status = 429 => fetch.gets + 1 < MaxGets
    /\ LET vacancy_detail == IF empty THEN <<>> ELSE [id |-> fetch.items[fetch.i]]
       IN  fetch' = IF status = 429 THEN [fetch EXCEPT !.gets = @ + 1]
                    ELSE AtItem(fetch.items, NextItem(fetch.items, fetch.i),
                                IF status = 200 /\ vacancy_detail # <<>>
                                THEN Append(fetch.vacancies_data, vacancy_detail)
                                ELSE fetch.vacancies_data)
    /\ UNCHANGED <<userNodes, vacancyNodes, skillNodes, rels, settings, clock, last, calls, drawn, connected, pending>>

NextFetch ==
    \/ \E status \in Statuses,
             items \in {<<>>} \cup {<<a>> : a \in ItemIds} \cup {<<a, b>> : a, b \in ItemIds} :
          SearchVacancies(status, items)
    \/ \E status \in Statuses, empty \in BOOLEAN : GetVacancyDetails(status, empty)

SpecFetch == Init /\ [][NextFetch]_vars

----------------------------------------------------------------------------
(* FeedbackService.get_user_feedback_history                               *)

(* Rows left in the order the store matched them: the ordering of the      *)
(* history must tell it from OrderByTimestampDesc.                         *)
OrderByTimestampSkipped(rows) == rows

(* ORDER BY r.timestamp DESC.  Rows of equal timestamp come from one       *)
(* record_feedback call and are equal, so their order cannot be observed.  *)
RECURSIVE OrderByTimestampDesc(_)
OrderByTimestampDesc(rows) ==
    IF rows = <<>> THEN <<>>
    ELSE LET latest == CHOOSE i \in DOMAIN rows :
                           \A j \in DOMAIN rows : rows[j].timestamp <= rows[i].timestamp
         IN  <<rows[latest]>> \o
             OrderByTimestampDesc(SubSeq(rows, 1, latest - 1) \o
                                  SubSeq(rows, latest + 1, Len(rows)))

(* MATCH (u:User {id: $user_id})-[r]->(v:Vacancy): one row per             *)
(* relationship from a node of the id to a Vacancy node.                   *)
HistoryQuery(r, user_id, limit) ==
    LET found == SetToSeq({k \in DOMAIN r : k[1][1] = user_id})
        rows == [i \in DOMAIN found |->
                    [feedback_type |-> found[i][3],
                     vacancy_id |-> found[i][2][1],
                     timestamp |-> r[found[i]]]]
    IN  Limit(OrderByTimestampDesc(rows), limit)

GetUserFeedbackHistory(session, user_id, limit) ==
    /\ session \notin DOMAIN pending
    /\ last' = [op |-> "get_user_feedback_history", session |-> session,
                user_id |-> user_id, limit |-> limit,
                result |-> HistoryQuery(Reachable(rels), user_id, limit)]
    /\ UNCHANGED <<userNodes, vacancyNodes, skillNodes, rels, settings, clock, calls, drawn, connected, pending, fetch>>

NextHistory ==
    \/ \E session \in Sessions, u \in UserIds, v \in VacancyIds, t \in FeedbackType :
          calls.feedback < MaxFeedback /\ RecordFeedback(session, u, v, t)
    \/ \E session \in Sessions, u \in UserIds, limit \in 0..MaxHistory :
          GetUserFeedbackHistory(session, u, limit)
    \/ \E session \in Sessions : Continue(session)

SpecHistory == InitPrefs /\ [][NextHistory]_vars

----------------------------------------------------------------------------
(* The keys derived from one skill string by the three places that derive  *)
(* a key.                                                                  *)

(* The skill strings that are drawn: not empty, as save_vacancy passes     *)
(* over an empty skill and the profile form drops one.                     *)
SkillNames == UNION {[1..n -> {"P", "s", " ", "."}] : n \in 1..MaxLen}

InitSkillKey ==
    /\ userNodes = <<>>
    /\ vacancyNodes = <<>>
    /\ skillNodes = <<>>
    /\ rels = <<>>
    /\ settings = DefaultSettings
    /\ clock = 0
    /\ last = NoCall
    /\ calls = [profile |-> 0, vacancy |-> 0, feedback |-> 0, page |-> 0]
    /\ connected = TRUE
    /\ pending = <<>>
    /\ fetch = NoFetch
    /\ \E skill \in SkillNames : drawn = [skill |-> skill]

DeriveSkillKeys ==
    /\ last' = [op |-> "skill_keys",
                skill |-> drawn.skill,
                vacancy_key |-> VacancySkillId(drawn.skill),
                user_key |-> UserSkillId(drawn.skill),
                feedback_key |-> FeedbackSkillId(drawn.skill),
                preference_key |-> PreferenceSkillId(FeedbackSkillId(drawn.skill))]
    /\ UNCHANGED <<userNodes, vacancyNodes, skillNodes, rels, settings, clock, calls, drawn, connected, pending, fetch>>

NextSkillKey == DeriveSkillKeys

SpecSkillKey == InitSkillKey /\ [][NextSkillKey]_vars

----------------------------------------------------------------------------
(* record_feedback during which the store fails for some of its            *)
(* statements: the MERGE of the relationship, the skills query, the read   *)
(* of the user and the SET of the preferences.                             *)

(* u1 with skill P, no u2; listing v1 requiring P and S; listing v2        *)
(* without skills, or not saved.                                           *)
InitFailures ==
    LET a == create_or_update_user(<<>>, <<>>, Profile("u1", "r1", <<P>>), Answered)
        b == save_vacancy(<<>>, a.skills, Requiring("v1", <<P, S>>), Answered)
        c == save_vacancy(b.vacancies, b.skills, Bare("v2"), Answered)
    IN  /\ userNodes = a.users
        /\ \E st \in {b, c} : vacancyNodes = st.vacancies /\ skillNodes = st.skills
        /\ rels = <<>>
        /\ settings = DefaultSettings
        /\ clock = 0
        /\ last = NoCall
        /\ calls = [profile |-> 1, vacancy |-> 2, feedback |-> 0, page |-> 0]
        /\ drawn = NoCall
        /\ connected = TRUE
        /\ pending = <<>>
        /\ fetch = NoFetch

NextFailures ==
    \/ \E session \in Alone, u \in UserIds, v \in VacancyIds, t \in FeedbackType :
          calls.feedback < MaxFeedback /\ RecordFeedback(session, u, v, t)
    \/ \E session \in Alone : Continue(session)
    \/ StoreLost
    \/ StoreRestored

SpecFailures == InitFailures /\ [][NextFailures]_vars

----------------------------------------------------------------------------
(* Properties.                                                             *)
(*                                                                         *)
(* They are stated on the record of the call that has just returned, or on *)
(* the step in which a session runs a statement.  A profile or a listing   *)
(* "as saved" is the node of slot Main, which carries the properties of    *)
(* the latest save of its id.                                              *)

Ranked == last.op = "get_recommendations"

UserSaved(u) == <<u, Main>> \in DOMAIN userNodes
VacancySaved(v) == <<v, Main>> \in DOMAIN vacancyNodes
UserSkills(u) == Range(userNodes[<<u, Main>>].skills)
VacancySkills(v) == Range(vacancyNodes[<<v, Main>>].skills)

InUnit(x) == RLe(Zero, x) /\ RLe(x, One)

(* Some node of user u has a relationship of one of the types to some node *)
(* of listing v.                                                           *)
HasEdge(u, v, types) ==
    \E un \in NodesOf(userNodes, u), vn \in NodesOf(vacancyNodes, v), t \in types :
        <<un, vn, t>> \in DOMAIN rels

(* The listings of the store that the ids of the three mappings resolve to *)
Resolvable(ids) == {v \in ids : NodesOf(vacancyNodes, v) # {}}

ResultIds == {last.result[i].vacancy.id : i \in DOMAIN last.result}

(* What the starting step of a call of each kind runs: the constructor of  *)
(* the feedback, or the first statement of the call.                       *)
FirstStatement(op) ==
    IF op = "record_feedback" THEN "constructor"
    ELSE IF op = "update_user_preferences" THEN "user"
    ELSE "content"

(* In this step session s starts a call that does not return in it, starts *)
(* and ends one, or goes on with the one it is in.                         *)
Starts(s) == s \notin DOMAIN pending /\ s \in DOMAIN pending'
StartsAndEnds(s) ==
    /\ s \notin DOMAIN pending
    /\ s \notin DOMAIN pending'
    /\ "session" \in DOMAIN last'
    /\ last'.session = s
GoesOn(s) ==
    /\ s \in DOMAIN pending
    /\ s \in DOMAIN pending' => pending'[s] # pending[s]

(* The locals of the call of which session s runs a statement in this      *)
(* step.                                                                   *)
CallOf(s) ==
    IF s \in DOMAIN pending THEN pending[s]
    ELSE IF s \in DOMAIN pending' THEN pending'[s]
    ELSE last'

(* In this step session s runs a statement of a call of kind op. *)
Runs(s, op) == (Starts(s) \/ StartsAndEnds(s) \/ GoesOn(s)) /\ CallOf(s).op = op

(* In this step session s runs the statement pc of a call of kind op. *)
RunsStatement(s, op, pc) ==
    /\ Runs(s, op)
    /\ IF s \in DOMAIN pending THEN pending[s].pc = pc ELSE FirstStatement(op) = pc

(* C1: for a saved user and every saved listing with a non-empty skill     *)
(* list, the content mapping holds the listing with the score              *)
(* |listing skills /\ user skills| / |listing skills|, both as sets; a      *)
(* listing with no skills is not a key of the mapping.                     *)
C1_ContentScore ==
    (Ranked /\ UserSaved(last.user_id)) =>
        \A v \in VacancyIds :
            VacancySaved(v) =>
                IF VacancySkills(v) # {}
                THEN /\ v \in DOMAIN last.content_scores
                     /\ last.content_scores[v] =
                            Rat(Cardinality(VacancySkills(v) \cap UserSkills(last.user_id)),
                                Cardinality(VacancySkills(v)))
                ELSE v \notin DOMAIN last.content_scores

(* C2: a listing the target user has a LIKED or a DISLIKED relationship to *)
(* is not a key of the graph mapping computed for that user.               *)
C2_GraphExclusion ==
    Ranked =>
        \A v \in VacancyIds :
            HasEdge(last.user_id, v, {LIKE, DISLIKE}) => v \notin DOMAIN last.graph_scores

(* The users other than u whose saved skills share a skill with u's.       *)
SharingUsers(u) ==
    {o \in UserIds \ {u} : UserSaved(o) /\ UserSkills(o) \cap UserSkills(u) # {}}

(* C3: the raw graph score of a listing is the number of distinct users,   *)
(* other than the target, who share a skill with the target and have a     *)
(* LIKED relationship to the listing; with no skills or no sharing user    *)
(* the mapping is empty.                                                   *)
C3_GraphScore ==
    (Ranked /\ UserSaved(last.user_id)) =>
        /\ \A v \in DOMAIN last.graph_scores :
              last.graph_scores[v] =
                  Rat(Cardinality({o \in SharingUsers(last.user_id) : HasEdge(o, v, {LIKE})}), 1)
        /\ SharingUsers(last.user_id) = {} => DOMAIN last.graph_scores = {}

(* The saved listings that carry a vector.                                 *)
EmbeddedVacancies ==
    {v \in VacancyIds : VacancySaved(v) /\ vacancyNodes[<<v, Main>>].embedding # <<>>}

(* C4: the semantic mapping is empty when the saved user has no embedding; *)
(* otherwise its keys are the listings with an embedding and each value is *)
(* the cosine similarity with negatives raised to 0, a number of [0, 1].   *)
C4_SemanticScores ==
    (Ranked /\ UserSaved(last.user_id)) =>
        LET user == userNodes[<<last.user_id, Main>>]
        IN  IF ~ Has(user, "embedding") THEN DOMAIN last.semantic_scores = {}
            ELSE /\ DOMAIN last.semantic_scores = EmbeddedVacancies
                 /\ \A v \in EmbeddedVacancies :
                       LET similarity == get_similarity(user.embedding,
                                             vacancyNodes[<<v, Main>>].embedding)
                       IN  /\ last.semantic_scores[v] =
                                  (IF RLt(similarity, Zero) THEN Zero ELSE similarity)
                           /\ InUnit(last.semantic_scores[v])

(* C5, as stated: for every limit, the returned list is no longer than the *)
(* limit.                                                                  *)
C5_LengthAtMostLimit == Ranked => Len(last.result) <= last.limit

(* C5, amended: for every limit that is not negative, the returned list is *)
(* no longer than the limit.                                               *)
C5_LengthAtMostNonNegativeLimit ==
    (Ranked /\ last.limit >= 0) => Len(last.result) <= last.limit

(* Two listings qualify and resolve, and a limit of 1 cut the list to one. *)
C5_Truncated ==
    /\ Ranked
    /\ last.limit = 1
    /\ Len(last.result) = 1
    /\ Cardinality(Resolvable(AllIds(last.content_scores, last.graph_scores,
                                     last.semantic_scores))) = 2

SortedByTotalDesc(result) ==
    \A i, j \in DOMAIN result :
        i < j => ~ RLt(result[i].total_score, result[j].total_score)

(* The order of listing ids as strings.                                    *)
IdBefore(a, b) == a = "v1" /\ b = "v2"

(* C6, as stated: the returned list is sorted by total descending, and     *)
(* candidates of equal total are in ascending order of listing id.         *)
C6_SortedTiesById ==
    Ranked =>
        /\ SortedByTotalDesc(last.result)
        /\ \A i, j \in DOMAIN last.result :
              (i < j /\ last.result[i].total_score = last.result[j].total_score) =>
                  IdBefore(last.result[i].vacancy.id, last.result[j].vacancy.id)

(* C6, amended: the returned list is sorted by total descending (the order *)
(* of candidates of equal total is the order the ids were iterated in).    *)
C6_SortedDescending == Ranked => SortedByTotalDesc(last.result)

(* Two candidates of different totals were returned, the larger first.     *)
C6_TwoTotals ==
    /\ Ranked
    /\ Len(last.result) = 2
    /\ RLt(last.result[2].total_score, last.result[1].total_score)

(* C7: every id of the three mappings that resolves is returned when the   *)
(* limit allows; the total of each returned candidate is the weighted sum  *)
(* of its three component scores, under the weights that settings held     *)
(* when the candidate was scored; a component whose mapping lacks the      *)
(* listing is 0; with an empty semantic mapping the total is               *)
(* w_content * content + w_graph * graph.                                  *)
C7_WeightedSum ==
    Ranked =>
        LET all_ids == AllIds(last.content_scores, last.graph_scores, last.semantic_scores)
        IN  /\ last.limit >= Cardinality(all_ids) => ResultIds = Resolvable(all_ids)
            /\ ResultIds \subseteq all_ids
            /\ \A i \in DOMAIN last.result :
                  LET rec == last.result[i]
                      id == rec.vacancy.id
                      w == last.weights[id]
                      two == RAdd(RMul(w.content_weight, rec.content_score),
                                  RMul(w.graph_weight, rec.graph_score))
                  IN  /\ rec.total_score =
                             RAdd(two, RMul(w.semantic_weight, rec.semantic_score))
                      /\ id \notin DOMAIN last.content_scores => rec.content_score = Zero
                      /\ id \notin DOMAIN last.graph_scores => rec.graph_score = Zero
                      /\ id \notin DOMAIN last.semantic_scores => rec.semantic_score = Zero
                      /\ DOMAIN last.semantic_scores = {} => rec.total_score = two

(* With an empty semantic mapping, a listing that only the graph mapping   *)
(* holds was returned with a total that is not 0.                          *)
C7_OneSignalCandidate ==
    /\ Ranked
    /\ DOMAIN last.semantic_scores = {}
    /\ \E i \in DOMAIN last.result :
          /\ last.result[i].vacancy.id \notin DOMAIN last.content_scores
          /\ last.result[i].vacancy.id \in DOMAIN last.graph_scores
          /\ last.result[i].total_score # Zero

(* C8: when the three weights a candidate was scored under sum to 1 and    *)
(* its three component scores are in [0, 1], its total is in [0, 1].       *)
C8_TotalInUnit ==
    Ranked =>
        \A i \in DOMAIN last.result :
            LET rec == last.result[i]
                w == last.weights[rec.vacancy.id]
            IN  (/\ RAdd(RAdd(w.content_weight, w.graph_weight), w.semantic_weight) = One
                 /\ InUnit(rec.content_score)
                 /\ InUnit(rec.graph_score)
                 /\ InUnit(rec.semantic_score)) => InUnit(rec.total_score)

(* C9: whatever the weight controls have set, the four scores of every     *)
(* returned candidate are in [0, 1].                                       *)
C9_ScoresInUnit ==
    Ranked =>
        \A i \in DOMAIN last.result :
            /\ InUnit(last.result[i].content_score)
            /\ InUnit(last.result[i].graph_score)
            /\ InUnit(last.result[i].semantic_score)
            /\ InUnit(last.result[i].total_score)

(* score is raw[id] / max(raw) when raw is non-empty with a positive       *)
(* maximum, and raw[id] (0 for a missing id) otherwise.                    *)
NormalizedFrom(raw, id, score) ==
    IF \E k \in DOMAIN raw : RLt(Zero, raw[k])
    THEN \E m \in DOMAIN raw :
            /\ \A k \in DOMAIN raw : RLe(raw[k], raw[m])
            /\ RMul(score, raw[m]) = Get(raw, id, Zero)
            /\ (id \in DOMAIN raw /\ raw[id] = raw[m]) => score = One
    ELSE score = Get(raw, id, Zero)

(* C10: each component score of a returned candidate is its raw score      *)
(* divided by the maximum of its own mapping when that mapping is          *)
(* non-empty with a positive maximum, and the raw score otherwise; the     *)
(* best listing of such a mapping gets exactly 1.                          *)
C10_Normalization ==
    Ranked =>
        \A i \in DOMAIN last.result :
            LET rec == last.result[i]
            IN  /\ NormalizedFrom(last.content_scores, rec.vacancy.id, rec.content_score)
                /\ NormalizedFrom(last.graph_scores, rec.vacancy.id, rec.graph_score)
                /\ NormalizedFrom(last.semantic_scores, rec.vacancy.id, rec.semantic_score)

(* Content scores 2/3 and 0 were returned as 1 and 0.                      *)
C10_TwoThirdsBecomesOne ==
    /\ Ranked
    /\ DOMAIN last.content_scores = {"v1", "v2"}
    /\ last.content_scores["v1"] = Rat(2, 3)
    /\ last.content_scores["v2"] = Zero
    /\ \E i, j \in DOMAIN last.result :
          /\ last.result[i].vacancy.id = "v1" /\ last.result[i].content_score = One
          /\ last.result[j].vacancy.id = "v2" /\ last.result[j].content_score = Zero

HasPositive(scores) == \E k \in DOMAIN scores : RLt(Zero, scores[k])

(* C11: for a non-empty mapping with a positive value, normalizing the     *)
(* normalized mapping gives the normalized mapping again.                  *)
C11_NormalizeIdempotent ==
    (last.op = "normalize" /\ HasPositive(last.scores)) =>
        NormalizeMap(last.normalized) = last.normalized

(* A mapping that normalization changes (2/3 became 1) was normalized.     *)
C11_NormalizedOnce ==
    /\ last.op = "normalize"
    /\ \E k \in DOMAIN last.scores :
          last.scores[k] = Rat(2, 3) /\ last.normalized[k] = One

(* C12: an id of the score mappings that resolves to no stored listing is  *)
(* not in the result, and the ids that resolve are returned all the same   *)
(* when the limit allows.                                                  *)
C12_StaleIdsDropped ==
    Ranked =>
        LET all_ids == AllIds(last.content_scores, last.graph_scores, last.semantic_scores)
        IN  /\ \A i \in DOMAIN last.result :
                  NodesOf(vacancyNodes, last.result[i].vacancy.id) # {}
            /\ \A v \in Resolvable(all_ids) :
                  last.limit >= Cardinality(all_ids) => v \in ResultIds

(* v2 is scored and not stored; the ranking returned v1 alone.             *)
C12_StaleBesideStored ==
    /\ Ranked
    /\ "v2" \in AllIds(last.content_scores, last.graph_scores, last.semantic_scores)
    /\ NodesOf(vacancyNodes, "v2") = {}
    /\ ResultIds = {"v1"}

(* The preference mapping a node stores ({} when it stores none).          *)
StoredPrefs(node) ==
    IF "preferences" \in DOMAIN node THEN node.preferences.json ELSE <<>>

(* C13: every preference weight stored on a user is in [0, 1].             *)
C13_WeightsInUnit ==
    \A n \in DOMAIN userNodes :
        \A k \in DOMAIN StoredPrefs(userNodes[n]) : InUnit(StoredPrefs(userNodes[n])[k])

(* A third LIKE at learning rate 1/2 moved the weight of "p" above 1, and  *)
(* the pass left 1 in the mapping that the call is about to store.         *)
C13_ClampedAtOne ==
    \E s \in DOMAIN pending :
        /\ pending[s].op = "record_feedback"
        /\ pending[s].pc = "preferences"
        /\ pending[s].feedback_type = LIKE
        /\ RLt(One, pending[s].new_weight)
        /\ pending[s].current_prefs[<<"p">>] = One

(* The preference mapping stored for a saved user.                         *)
Prefs(nodes, u) == StoredPrefs(nodes[<<u, Main>>])

(* clamp((current + delta) * (1 - lambda), 0, 1), delta = +rate / n for a  *)
(* LIKE and -rate / n for a DISLIKE.                                       *)
ExpectedWeight(current, feedback_type, n, cfg) ==
    LET delta == IF feedback_type = LIKE THEN RDiv(cfg.learning_rate, Rat(n, 1))
                 ELSE RSub(Zero, RDiv(cfg.learning_rate, Rat(n, 1)))
        moved == RMul(RAdd(current, delta), RSub(One, cfg.regularization_lambda))
    IN  IF RLt(moved, Zero) THEN Zero ELSE IF RLt(One, moved) THEN One ELSE moved

(* The mapping a preference update holds in memory. *)
Computed(call) == call.current_prefs

WeightAt(node, k) ==
    IF k \in DOMAIN StoredPrefs(node) THEN <<StoredPrefs(node)[k]>> ELSE <<>>

(* Every stored weight is the same before and after the step, except on    *)
(* the nodes of user u under the keys of the skills.                       *)
OnlyChanged(u, skills) ==
    \A n \in DOMAIN userNodes :
        \A k \in DOMAIN StoredPrefs(userNodes[n]) \cup DOMAIN StoredPrefs(userNodes'[n]) :
            (n[1] # u \/ k \notin {UserSkillId(s) : s \in skills}) =>
                WeightAt(userNodes[n], k) = WeightAt(userNodes'[n], k)

(* C15: a preference update changes no stored weight of another user, and  *)
(* of the rated user only the weights under the normalized keys of the     *)
(* rated listing's skills.                                                 *)
C15_UpdateFrame ==
    [][\A s \in Sessions :
          Runs(s, "record_feedback") =>
              OnlyChanged(CallOf(s).user_id,
                          IF VacancySaved(CallOf(s).vacancy_id)
                          THEN VacancySkills(CallOf(s).vacancy_id) ELSE {})]_vars

(* The updates drawn at the positions of a list, applied one after the     *)
(* other.                                                                  *)
RECURSIVE ApplyInOrder(_, _)
ApplyInOrder(prefs, order) ==
    IF order = <<>> THEN prefs
    ELSE LET update == drawn[Head(order)]
         IN  ApplyInOrder(
                 UpdateWeights(prefs, SkillWeightKeys(update.skills, {}),
                               update.feedback_type, WeightPerSkill(update.skills),
                               settings),
                 Tail(order))

(* C16: when the two updates have returned, the mapping stored for each    *)
(* user is what its updates give when applied one after the other, in some *)
(* order, to the mapping the user started with (the empty one).            *)
C16_NoLostUpdate ==
    (calls.feedback = MaxFeedback /\ DOMAIN pending = {}) =>
        \A u \in UserIds :
            \E order \in Perms({i \in 1..MaxFeedback : drawn[i].user_id = u}) :
                Prefs(userNodes, u) = ApplyInOrder(EmptyDict, order)

(* C17: a VIEWED or APPLIED feedback changes no stored preference; a LIKED *)
(* or DISLIKED feedback on a saved listing with skills goes on from its    *)
(* skills query to the update, and the update stores once, for each skill  *)
(* of the listing, the weight the rule gives.                              *)
C17_UpdateOnLikeAndDislikeOnly ==
    [][\A s \in Sessions :
          /\ (Runs(s, "record_feedback") /\ CallOf(s).feedback_type \in {VIEW, APPLY}) =>
                userNodes' = userNodes
          /\ (/\ RunsStatement(s, "record_feedback", "skills")
              /\ VacancySaved(pending[s].vacancy_id)
              /\ VacancySkills(pending[s].vacancy_id) # {}) =>
                /\ s \in DOMAIN pending'
                /\ pending'[s].pc = "user"
                /\ Range(pending'[s].skills) = VacancySkills(pending[s].vacancy_id)
          /\ RunsStatement(s, "record_feedback", "preferences") =>
                /\ s \notin DOMAIN pending'
                /\ Prefs(userNodes', pending[s].user_id) = Computed(pending[s])]_vars

(* The relationships of type t between the nodes of user u and of listing  *)
(* v.                                                                      *)
EdgesBetween(u, v, t) == {k \in DOMAIN rels : k[1][1] = u /\ k[2][1] = v /\ k[3] = t}

(* C18: between a user and a listing there is at most one relationship of  *)
(* each feedback type, and no step removes a relationship.                 *)
C18_OneEdgePerKind ==
    /\ [](\A u \in UserIds, v \in VacancyIds, t \in FeedbackType :
             Cardinality(EdgesBetween(u, v, t)) <= 1)
    /\ [][DOMAIN rels \subseteq DOMAIN rels']_vars

(* C19: a feedback of which a write was sent while the store was           *)
(* unreachable is reported as failed.                                      *)
C19_WriteFailureReported ==
    (last.op = "record_feedback" /\ last.failed \cap {"edge", "preferences"} # {}) =>
        last.result = FALSE

(* The three queries a ranking sends whatever the store holds; when none   *)
(* of them is answered the ranking sends no other.                         *)
ScorerQueries == {"content", "graph", "semantic_user"}

(* C20: a ranking requested while the store is unreachable, so that none   *)
(* of its statements is answered, is the empty list.                       *)
C20_EmptyWhenUnreachable ==
    (Ranked /\ ScorerQueries \subseteq last.failed) => last.result = <<>>

(* A ranking of which no statement was answered returned, for a user to    *)
(* whom the store holds listings with a content score.                     *)
C20_RankedDuringOutage ==
    /\ Ranked
    /\ ScorerQueries \subseteq last.failed
    /\ DOMAIN _get_content_recommendations(userNodes, vacancyNodes, last.user_id) # {}

(* The statements of each scorer. *)
StatementsOf(signal) ==
    IF signal = "content_scores" THEN {"content"}
    ELSE IF signal = "graph_scores" THEN {"graph"}
    ELSE {"semantic_user", "semantic_vacancies"}

(* The mapping a scorer gives on the whole store. *)
ScoredOnStore(signal, user_id, mapping) ==
    IF signal = "content_scores"
    THEN mapping = _get_content_recommendations(userNodes, vacancyNodes, user_id)
    ELSE IF signal = "graph_scores"
    THEN mapping = _get_graph_recommendations(userNodes, vacancyNodes, rels, user_id)
    ELSE \E first \in FirstRows(userNodes, user_id) :
            mapping = _get_semantic_recommendations(userNodes, vacancyNodes, user_id, first)

(* The score and the weight of a signal in a returned candidate. *)
Component(rec, signal) ==
    IF signal = "content_scores" THEN rec.content_score
    ELSE IF signal = "graph_scores" THEN rec.graph_score
    ELSE rec.semantic_score

WeightOf(w, signal) ==
    IF signal = "content_scores" THEN w.content_weight
    ELSE IF signal = "graph_scores" THEN w.graph_weight
    ELSE w.semantic_weight

(* C21: when the statements that failed during a ranking are those of one  *)
(* scorer, its mapping is empty, the two other mappings are what their     *)
(* scorers give on the store, and the ranking returns the resolvable       *)
(* candidates of those two, each with the failed signal's score 0 and the  *)
(* weighted sum of the two others, under the weights it was scored with,   *)
(* as total.                                                               *)
C21_DegradesToRemainingSignals ==
    Ranked =>
        \A signal \in Signals :
            (last.failed # {} /\ last.failed \subseteq StatementsOf(signal)) =>
                LET rest == Signals \ {signal}
                    ids == UNION {DOMAIN last[s] : s \in rest}
                IN  /\ DOMAIN last[signal] = {}
                    /\ \A s \in rest : ScoredOnStore(s, last.user_id, last[s])
                    /\ ResultIds \subseteq Resolvable(ids)
                    /\ last.limit >= Cardinality(ids) => ResultIds = Resolvable(ids)
                    /\ \A i \in DOMAIN last.result :
                          LET rec == last.result[i]
                              w == last.weights[rec.vacancy.id]
                              term(s) == IF s = signal THEN Zero
                                         ELSE RMul(WeightOf(w, s), Component(rec, s))
                          IN  /\ Component(rec, signal) = Zero
                              /\ rec.total_score =
                                     RAdd(RAdd(term("content_scores"), term("graph_scores")),
                                          term("semantic_scores"))

(* The content query failed in a ranking for a user to whom the store      *)
(* gives content scores, and candidates of the other signals were          *)
(* returned.                                                               *)
C21_ContentFailedOthersReturned ==
    /\ Ranked
    /\ last.failed = {"content"}
    /\ DOMAIN _get_content_recommendations(userNodes, vacancyNodes, last.user_id) # {}
    /\ last.result # <<>>

(* C22: the details of one item are requested at most three times.         *)
C22_AtMostThreeGets ==
    fetch.pc = "details" => fetch.gets + 1 <= 3

(* The relationships from the nodes of user u to listings. *)
FeedbackOf(u) == {k \in DOMAIN rels : k[1][1] = u}

(* C23: the history of a user holds only rows of relationships of that     *)
(* user, at most limit of them, by timestamp descending, and every         *)
(* relationship of the user later than a returned row is returned before   *)
(* it; when the history is shorter than limit it holds every relationship  *)
(* of the user.                                                            *)
C23_HistoryMostRecentFirst ==
    last.op = "get_user_feedback_history" =>
        LET result == last.result
            mine == FeedbackOf(last.user_id)
        IN  /\ Len(result) <= last.limit
            /\ Len(result) < last.limit => Len(result) = Cardinality(mine)
            /\ \A i \in DOMAIN result :
                  /\ \E k \in mine : /\ result[i].feedback_type = k[3]
                                     /\ result[i].vacancy_id = k[2][1]
                                     /\ result[i].timestamp = rels[k]
                  /\ \A j \in DOMAIN result :
                        i < j => result[j].timestamp <= result[i].timestamp
                  /\ Cardinality({k \in mine : rels[k] > result[i].timestamp}) <= i - 1

(* A history cut by its limit: relationships of the user of two different  *)
(* timestamps exist and only rows of the later one were returned.          *)
C23_OlderFeedbackCut ==
    /\ last.op = "get_user_feedback_history"
    /\ last.result # <<>>
    /\ Len(last.result) = last.limit
    /\ \E k \in FeedbackOf(last.user_id) :
          \A i \in DOMAIN last.result : rels[k] < last.result[i].timestamp

(* C24: the key derived from a skill string when a listing is saved, the    *)
(* key derived when a user is saved and the key derived in the preference  *)
(* update are the same.                                                    *)
C24_SameKeyEverywhere ==
    last.op = "skill_keys" =>
        /\ last.vacancy_key = last.user_key
        /\ last.user_key = last.preference_key

(* C25: a step in which no session runs a statement of a recorded feedback *)
(* leaves the stored preferences of every saved user as they are.          *)
C25_PreferencesOnlyByUpdater ==
    [][(\A s \in Sessions : ~ Runs(s, "record_feedback")) =>
          \A u \in UserIds :
              UserSaved(u) => Prefs(userNodes', u) = Prefs(userNodes, u)]_vars

(* The listing has no node, or its saved node has an empty skills list. *)
NoSkills(v) == NodesOf(vacancyNodes, v) = {} \/ VacancySkills(v) = {}

(* C26: a feedback on a listing that is not stored or has no skills        *)
(* changes no user node, whatever statements fail.                         *)
C26_NoSkillsNoUpdate ==
    [][\A s \in Sessions :
          (Runs(s, "record_feedback") /\ NoSkills(CallOf(s).vacancy_id)) =>
              userNodes' = userNodes]_vars

(* A LIKE by a saved user on the saved listing without skills was recorded *)
(* with every statement answered.                                          *)
C26_LikedListingWithoutSkills ==
    /\ last.op = "record_feedback"
    /\ last.feedback_type = LIKE
    /\ last.failed = {}
    /\ UserSaved(last.user_id)
    /\ VacancySaved(last.vacancy_id)
    /\ VacancySkills(last.vacancy_id) = {}
    /\ HasEdge(last.user_id, last.vacancy_id, {LIKE})

(* Every skill key of listing v carries, in the mapping after, the weight   *)
(* the update rule gives from the mapping before.                          *)
AllKeysUpdated(before, after, v, feedback_type, cfg) ==
    LET skills == vacancyNodes[<<v, Main>>].skills
    IN  /\ skills # <<>>
        /\ DOMAIN after = DOMAIN before \cup {UserSkillId(skills[i]) : i \in DOMAIN skills}
        /\ \A key \in DOMAIN after :
              after[key] =
                  IF \E i \in DOMAIN skills : UserSkillId(skills[i]) = key
                  THEN ExpectedWeight(Get(before, key, Zero), feedback_type, Len(skills), cfg)
                  ELSE before[key]

(* C27: whatever statements of a recorded feedback fail, the stored        *)
(* preference mapping of each saved user is afterwards the mapping before  *)
(* the call, or, for the user of the feedback, the mapping with every      *)
(* skill key of the listing updated.                                       *)
C27_UpdateAllOrNothing ==
    [][\A s \in Sessions :
          Runs(s, "record_feedback") =>
              \A u \in UserIds :
                  UserSaved(u) =>
                      \/ Prefs(userNodes', u) = Prefs(userNodes, u)
                      \/ /\ u = CallOf(s).user_id
                         /\ VacancySaved(CallOf(s).vacancy_id)
                         /\ AllKeysUpdated(Prefs(userNodes, u), Prefs(userNodes', u),
                                           CallOf(s).vacancy_id, CallOf(s).feedback_type,
                                           settings)]_vars

(* A LIKE on the listing of two skills was recorded with every statement   *)
(* answered, and both keys are stored.                                     *)
C27_TwoKeysStored ==
    /\ last.op = "record_feedback"
    /\ last.feedback_type = LIKE
    /\ last.failed = {}
    /\ UserSaved(last.user_id)
    /\ DOMAIN Prefs(userNodes, last.user_id) = {UserSkillId(P), UserSkillId(S)}

(* C28: a recorded feedback that reports success has left a relationship   *)
(* of its type from the user to the listing.                               *)
C28_SuccessMeansEdge ==
    (last.op = "record_feedback" /\ last.result) =>
        EdgesBetween(last.user_id, last.vacancy_id, last.feedback_type) # {}

(* C29: a saved user whose stored preferences are not empty has a LIKED or *)
(* DISLIKED relationship to a listing.                                     *)
C29_PreferencesImplyEdge ==
    \A u \in UserIds :
        (UserSaved(u) /\ DOMAIN Prefs(userNodes, u) # {}) =>
            \E v \in VacancyIds, t \in {LIKE, DISLIKE} : EdgesBetween(u, v, t) # {}

(* The total of listing id under the mappings of the last ranking and the  *)
(* weights the listing was scored with.                                    *)
TotalOf(id) ==
    TotalScore(last.weights[id],
               Normalize(last.content_scores, id),
               Normalize(last.graph_scores, id),
               Normalize(last.semantic_scores, id))

(* C30: for a limit that is not negative the ranking returns               *)
(* min(limit, number of resolvable ids of the three mappings) candidates,  *)
(* each id once, all resolvable, and no resolvable id left out has a total *)
(* greater than a returned one.                                            *)
C30_ExactlyTheBest ==
    (Ranked /\ last.limit >= 0) =>
        LET result == last.result
            resolvable == Resolvable(AllIds(last.content_scores, last.graph_scores,
                                            last.semantic_scores))
        IN  /\ Len(result) = Min(last.limit, Cardinality(resolvable))
            /\ ResultIds \subseteq resolvable
            /\ \A i, j \in DOMAIN result :
                  i # j => result[i].vacancy.id # result[j].vacancy.id
            /\ \A id \in resolvable \ ResultIds :
                  \A i \in DOMAIN result : ~ RLt(result[i].total_score, TotalOf(id))

(* With limit 1, v2 is scored above v1 and not stored, and v1 was          *)
(* returned.                                                               *)
C30_StaleAboveReturned ==
    /\ Ranked
    /\ last.limit = 1
    /\ NodesOf(vacancyNodes, "v2") = {}
    /\ Len(last.result) = 1
    /\ last.result[1].vacancy.id = "v1"
    /\ "v2" \in DOMAIN last.weights
    /\ RLt(last.result[1].total_score, TotalOf("v2"))

====
